---- MODULE Spec2Model ----
(***************************************************************************)
(* A model of the GitHub username validator, in twelve specifications:     *)
(*   Spec            the batch validation route                            *)
(*                   (src/app/api/validate-github-batch/route.ts)          *)
(*   SpecLimiter     the rate limiters of the batch and the plain route    *)
(*   SpecPage        the page (src/app/page.tsx): processing of the input  *)
(*                   and validation of the processed records               *)
(*   SpecRuns        the page from processed records on: validation runs   *)
(*                   that overlap, retry and cancellation                  *)
(*   SpecEngagement  the engagement route, up to the parsing of the URL    *)
(*                   (src/app/api/check-repository-engagement/route.ts)    *)
(*   SpecControl     the page from processed records on: one validation    *)
(*                   run at a time, paused, resumed and cancelled          *)
(*   SpecUserEngagement  the engagement check of one handle, on both paths *)
(*   SpecEngagementBatch the engagement check of a list of handles by      *)
(*                   batch queries, with the fallback of a failed chunk    *)
(*   SpecValidate    the validators of one handle and of one GraphQL chunk *)
(*   SpecRoutes      the batch and the plain route (the route of           *)
(*                   src/unnamed/part_000) up to their first response      *)
(*   SpecFanOut      the waves of REST calls and the GraphQL tasks one     *)
(*                   request has in flight, on both server routes          *)
(*   SpecControlFair SpecControl with the progress of a run's awaits       *)
(*                                                                         *)
(* Times are milliseconds, as Date.now() gives them.  A username is an     *)
(* opaque value to the routes (they only compare usernames with ===), so   *)
(* the route model names usernames 1, 2, 3, ...; the page and the URL      *)
(* parser look inside strings, so there a string is a sequence of          *)
(* one-character strings.                                                  *)
(***************************************************************************)
EXTENDS Integers, Sequences, FiniteSets, TLC

VARIABLES
    now,              \* Date.now()
    validationCache,  \* route.ts:28   Map<string, CacheEntry>
    rateLimitMap,     \* route.ts:31   Map<string, {count, resetTime}>
    req,              \* the request the batch route is serving (locals of POST)
    response,         \* the last response the batch route produced
    nRequests,        \* requests received so far
    nTicks,           \* clock advances so far
    plainRateLimitMap,\* validate-github/route.ts:24   Map<string, {count, resetTime}>
    lastCheck,        \* the last call of a rate limiter and what it returned
    allowedAt,        \* <<route, ip, time>> -> number of checks allowed then
    nChecks,          \* rate limiter calls so far
    input,            \* page: the values the user has at hand
    tokenEntered,     \* page.tsx:50   whether githubToken holds a token
    parsedData,       \* page.tsx:39   the columns of the parsed file, <<>> for null
    selectedColumn,   \* page.tsx:40   the number of the selected column, 0 for none
    processedUsers,   \* page.tsx:41
    repositoryUrl,    \* page.tsx:66   the repository URL entered, "" for none
    captured,         \* what the validateWithGitHub that processUsernames calls sees
    timers,           \* page.tsx:365  the auto-validation timers not yet fired
    run,              \* the validation run the model is following (validateSpecificUsernames)
    otherRun,         \* a second validation run under way, if any
    isValidating,     \* page.tsx:43
    isValidatingGitHub,   \* page.tsx:67
    validationController, \* page.tsx:47  whose AbortController it holds: "run", "other", "none" for null
    cancelled,        \* history: the user has cancelled and no validation was started since
    retryClosure,     \* what the validateSpecificUsernames that retryFailedUsernames calls sees
    isPaused,         \* page.tsx:48
    lastToast,        \* the last toast with which a validation run ended
    sent,             \* the requests the page has sent so far
    lastProcessed,    \* the processing processedUsers comes from unchanged: "column", "manual", or ""
    nPageSteps,       \* user actions so far
    engReq,           \* the request the engagement route is handling
    engResponse,      \* the engagement route's last response
    plainReq,         \* the request the plain route is serving (locals of POST)
    plainResponse,    \* the last response the plain route produced
    nPlainRequests,   \* requests the plain route has received so far
    call              \* one call of a function, with its arguments and what it returned

batchVars == <<validationCache, req, response, nRequests>>

limiterVars == <<plainRateLimitMap, lastCheck, allowedAt, nChecks>>

pageVars ==
    <<input, tokenEntered, parsedData, selectedColumn, processedUsers, repositoryUrl, captured,
      timers, run, otherRun, isValidating, isValidatingGitHub, validationController, cancelled,
      retryClosure, isPaused, lastToast, sent,
      lastProcessed, nPageSteps>>

flagVars ==
    <<isValidating, isValidatingGitHub, validationController, cancelled, isPaused, lastToast>>

engagementVars == <<engReq, engResponse>>

plainVars == <<plainReq, plainResponse, nPlainRequests>>

callVars == <<call>>

vars ==
    <<now, nTicks, rateLimitMap, batchVars, limiterVars, pageVars, engagementVars, plainVars,
      callVars>>

----------------------------------------------------------------------------
(* Bounds of the model *)

MaxRequests == 2
MaxTicks == 1
MaxChecks == 4
MaxRows == 3
MaxPageSteps == 4
MaxWaits == 2
MaxUrlParts == 5
NumWorlds == 2
MaxShortLen == 2
MaxAliases == 2
MaxErrors == 2
MaxRouteRequests == 2

(* Program constants *)

CACHE_DURATION == 300000
HOUR == 3600000
TokenLimit == 5000
AnonLimit == 60
MaxUsernames == 5000
AutoThreshold == 10
GraphQLBatchSize == 100
RESTConcurrency == 20
PlainLimit == 30
PlainFirstRemaining == 29
PlainMaxUsernames == 20
MaxHandleLen == 39
AutoValidateLimit == 100
BatchAPIThreshold == 10
ChunkSize == 20
RepoBatchSize == 100
RESTPerPage == 100
GraphQLFirst == 50
EngagementChunkSize == 30
EngagementRESTBatch == 20
EngagementRESTBatchAnon == 5
EngagementLimit == 5

----------------------------------------------------------------------------
(* Sequences *)

Range(n) == [i \in 1..n |-> i]

SeqToSet(s) == {s[i] : i \in 1..Len(s)}

Min(a, b) == IF a < b THEN a ELSE b

\* Array.prototype.slice(i, i + n) with a 0-based i
Slice(s, i, n) == SubSeq(s, i + 1, Min(i + n, Len(s)))

\* for (let i = 0; i < s.length; i += n) chunks.push(s.slice(i, i + n))
Chunks(s, n) ==
    [k \in 1..((Len(s) + n - 1) \div n) |-> Slice(s, (k - 1) * n, n)]

Reverse(s) == [i \in 1..Len(s) |-> s[Len(s) + 1 - i]]

\* undefined where a string is expected, and where an object is expected
Undefined == "undefined"

UndefinedObj == [undefined |-> TRUE]

Null == [null |-> TRUE]

\* results.find((r) => r.username === username): the first element with
\* that username, or undefined
FindByUsername(s, username) ==
    LET found == {i \in 1..Len(s) : s[i].username = username}
    IN  IF found = {} THEN UndefinedObj
        ELSE s[CHOOSE i \in found : \A j \in found : i <= j]

----------------------------------------------------------------------------
(* The remote API.  Its answers are drawn from NumWorlds worlds: in world  *)
(* w the call for username h is answered with RemoteKind(w, h).  The       *)
(* remote calls of one request are answered from one world, chosen when    *)
(* the request issues its first call; different requests may see different *)
(* worlds.  The remote also keeps a quota of its own: of the single-       *)
(* resource calls of a request, those after the first quota ones are       *)
(* answered 403 with the rate-limit message, whatever the world says.      *)

Kinds == <<"404", "200a", "403rl", "200b", "fault", "500", "403fb">>

RemoteKind(w, h) == Kinds[((h + w) % Len(Kinds)) + 1]

Worlds == 0..(NumWorlds - 1)

\* What is left of the remote's quota when a request issues its first
\* single-resource call: one call, or enough for every call of the request
Quotas == {1, MaxUsernames}

\* The answer to the n-th single-resource call of a request
CallKind(w, h, n, quota) == IF n > quota THEN "403rl" ELSE RemoteKind(w, h)

ProfileOf(kind) == IF kind = "200a" THEN "profileA" ELSE "profileB"

----------------------------------------------------------------------------
(* validate-github-batch/route.ts *)

ValidResult(username, profile) ==
    [username |-> username, status |-> "valid", error |-> Undefined, profileData |-> profile]

DeletedResult(username) ==
    [username |-> username, status |-> "deleted",
     error |-> "User not found or account deleted", profileData |-> Undefined]

ErrorResult(username, message) ==
    [username |-> username, status |-> "error", error |-> message, profileData |-> Undefined]

\* checkRateLimit with the ceiling test off by one (count > maxRequests)
checkRateLimitOffByOne(map, ip, hasToken, t) ==
    LET maxRequests == IF hasToken THEN TokenLimit ELSE AnonLimit
    IN  IF ip \notin DOMAIN map \/ t > map[ip].resetTime
        THEN [map |-> (ip :> [count |-> 1, resetTime |-> t + HOUR]) @@ map,
              allowed |-> TRUE, remaining |-> maxRequests - 1, resetTime |-> t + HOUR]
        ELSE IF map[ip].count > maxRequests
        THEN [map |-> map, allowed |-> FALSE, remaining |-> 0, resetTime |-> map[ip].resetTime]
        ELSE [map |-> [map EXCEPT ![ip].count = @ + 1],
              allowed |-> TRUE, remaining |-> maxRequests - (map[ip].count + 1),
              resetTime |-> map[ip].resetTime]

\* checkRateLimit with a window that is never renewed once it has run out
checkRateLimitKeepsWindow(map, ip, hasToken, t) ==
    LET maxRequests == IF hasToken THEN TokenLimit ELSE AnonLimit
    IN  IF ip \notin DOMAIN map
        THEN [map |-> (ip :> [count |-> 1, resetTime |-> t + HOUR]) @@ map,
              allowed |-> TRUE, remaining |-> maxRequests - 1, resetTime |-> t + HOUR]
        ELSE IF map[ip].count >= maxRequests
        THEN [map |-> map, allowed |-> FALSE, remaining |-> 0, resetTime |-> map[ip].resetTime]
        ELSE [map |-> [map EXCEPT ![ip].count = @ + 1],
              allowed |-> TRUE, remaining |-> maxRequests - (map[ip].count + 1),
              resetTime |-> map[ip].resetTime]

\* route.ts:33-54
checkRateLimit(map, ip, hasToken, t) ==
    LET maxRequests == IF hasToken THEN TokenLimit ELSE AnonLimit
    IN  IF ip \notin DOMAIN map \/ t > map[ip].resetTime
        THEN [map |-> (ip :> [count |-> 1, resetTime |-> t + HOUR]) @@ map,
              allowed |-> TRUE, remaining |-> maxRequests - 1, resetTime |-> t + HOUR]
        ELSE IF map[ip].count >= maxRequests
        THEN [map |-> map, allowed |-> FALSE, remaining |-> 0, resetTime |-> map[ip].resetTime]
        ELSE [map |-> [map EXCEPT ![ip].count = @ + 1],
              allowed |-> TRUE, remaining |-> maxRequests - (map[ip].count + 1),
              resetTime |-> map[ip].resetTime]

\* checkRateLimit of the plain route, with a denied call counted as well
checkRateLimitPlainCountsDenied(map, ip, t) ==
    IF ip \notin DOMAIN map \/ t > map[ip].resetTime
    THEN [map |-> (ip :> [count |-> 1, resetTime |-> t + HOUR]) @@ map,
          allowed |-> TRUE, remaining |-> PlainFirstRemaining, resetTime |-> t + HOUR]
    ELSE IF map[ip].count >= PlainLimit
    THEN [map |-> [map EXCEPT ![ip].count = @ + 1],
          allowed |-> FALSE, remaining |-> 0, resetTime |-> map[ip].resetTime]
    ELSE [map |-> [map EXCEPT ![ip].count = @ + 1],
          allowed |-> TRUE, remaining |-> PlainLimit - (map[ip].count + 1),
          resetTime |-> map[ip].resetTime]

\* validate-github/route.ts:26-42
checkRateLimitPlain(map, ip, t) ==
    IF ip \notin DOMAIN map \/ t > map[ip].resetTime
    THEN [map |-> (ip :> [count |-> 1, resetTime |-> t + HOUR]) @@ map,
          allowed |-> TRUE, remaining |-> PlainFirstRemaining, resetTime |-> t + HOUR]
    ELSE IF map[ip].count >= PlainLimit
    THEN [map |-> map, allowed |-> FALSE, remaining |-> 0, resetTime |-> map[ip].resetTime]
    ELSE [map |-> [map EXCEPT ![ip].count = @ + 1],
          allowed |-> TRUE, remaining |-> PlainLimit - (map[ip].count + 1),
          resetTime |-> map[ip].resetTime]

(***************************************************************************)
(* The batch-query protocol: POST /graphql with one alias user<index> per  *)
(* username.  An answered query carries data (absent as a whole, or one    *)
(* entry per alias, which is null when the remote has no such user) and    *)
(* errors, each with a type and the alias its path starts with (-1 when    *)
(* the error has no path).                                                 *)
(***************************************************************************)
NoUserData == [present |-> FALSE, profile |-> ""]

UserData(profile) == [present |-> TRUE, profile |-> profile]

GraphQLError(type, alias) == [type |-> type, path |-> alias]

\* route.ts:115: data.data?.[alias], for the alias user<index>
UserDataOf(answer, index) ==
    IF answer.hasData /\ index + 1 \in DOMAIN answer.data
    THEN answer.data[index + 1]
    ELSE NoUserData

\* notFound with the path of the error left out of the test
NotFoundAnyPath(errors, index) == \E err \in errors : err.type = "NOT_FOUND"

\* route.ts:118
NotFound(errors, index) == \E err \in errors : err.path = index /\ err.type = "NOT_FOUND"

\* route.ts:120-145
GraphQLResult(username, userData, notFound) ==
    IF userData.present THEN ValidResult(username, userData.profile)
    ELSE IF notFound THEN DeletedResult(username)
    ELSE ErrorResult(username, "Unexpected GraphQL error")

\* route.ts:100-148, for a query the remote answered (response.ok)
GraphQLResults(usernames, answer) ==
    [i \in 1..Len(usernames) |->
        GraphQLResult(usernames[i], UserDataOf(answer, i - 1), NotFound(answer.errors, i - 1))]

\* route.ts:113-146: the result for one alias of an answered batch query,
\* when the remote answers for the alias with a kind of the remote API
GraphQLAliasResult(username, kind) ==
    GraphQLResult(username,
                  IF kind \in {"200a", "200b"} THEN UserData(ProfileOf(kind)) ELSE NoUserData,
                  kind = "404")

\* route.ts:56-153, for a query the remote answered (response.ok)
validateUsernamesGraphQL(usernames, w) ==
    [i \in 1..Len(usernames) |-> GraphQLAliasResult(usernames[i], RemoteKind(w, usernames[i]))]

(***************************************************************************)
(* The single-resource protocol: GET /users/{username}.  An answer of the  *)
(* remote is a response (status, statusText, body) or a fault of fetch.    *)
(* The body is JSON text: an object, the text null, or text that does not  *)
(* parse; message is the message member of an object (<<>> when it has     *)
(* none), a sequence of one-character strings.                             *)
(***************************************************************************)
StatusText ==
    (200 :> "OK") @@ (204 :> "No Content") @@ (403 :> "Forbidden") @@ (404 :> "Not Found")
        @@ (429 :> "Too Many Requests") @@ (500 :> "Internal Server Error")
        @@ (503 :> "Service Unavailable")

Statuses == DOMAIN StatusText

ApiRateLimitMessage == <<"A", "P", "I", " ", "r", "a", "t", "e", " ", "l", "i", "m", "i", "t", " ", "e", "x", "c", "e", "e", "d", "e", "d">>

AccessBlockedMessage == <<"R", "e", "p", "o", "s", "i", "t", "o", "r", "y", " ", "a", "c", "c", "e", "s", "s", " ", "b", "l", "o", "c", "k", "e", "d">>

NoMessage == <<>>

Messages == {ApiRateLimitMessage, AccessBlockedMessage, NoMessage}

JsonBodies == {"object", "null", "invalid"}

ResponseOf(status, json, message, profile) ==
    [fault |-> "none", faultMessage |-> "", status |-> status, statusText |-> StatusText[status],
     json |-> json, message |-> message, profile |-> profile]

\* fetch rejects: with an Error (a TypeError, "fetch failed"), or with something that is no Error
FaultOf(fault, message) ==
    [fault |-> fault, faultMessage |-> message, status |-> 0, statusText |-> "",
     json |-> "invalid", message |-> NoMessage, profile |-> ""]

Answers ==
    {ResponseOf(status, json, message, "profileA") :
        status \in Statuses, json \in JsonBodies, message \in Messages}
        \cup {FaultOf("Error", "fetch failed"), FaultOf("thrown", "")}

\* String.prototype.includes
includes(s, sub) ==
    \E i \in 1..(Len(s) - Len(sub) + 1) : SubSeq(s, i, i + Len(sub) - 1) = sub

\* part_000:84: the text the plain route looks for in the message of a 403
RateLimitText == <<"r", "a", "t", "e", " ", "l", "i", "m", "i", "t">>

\* part_000:100, route.ts:212
HttpMessage(status, statusText) == "HTTP " \o ToString(status) \o ": " \o statusText

\* The messages of the errors response.json() and a member access on null throw
JsonSyntaxError == "Unexpected token < in JSON at position 0"

NullTypeError == "Cannot read properties of null"

\* part_000:62, route.ts:183: the 200 branch; response.json() and the reads of
\* userData can throw, which the catch of the function turns into a result
ProfileResult(username, answer) ==
    IF answer.json = "invalid" THEN ErrorResult(username, JsonSyntaxError)
    ELSE IF answer.json = "null" THEN ErrorResult(username, NullTypeError)
    ELSE ValidResult(username, answer.profile)

\* part_000:103-109, route.ts:215-221
FaultResult(username, answer) ==
    ErrorResult(username, IF answer.fault = "Error" THEN answer.faultMessage ELSE "Unknown error")

\* validateGitHubUsername with 404 taken for any other status
validateGitHubUsernameNoDeleted(username, answer) ==
    IF answer.fault # "none" THEN FaultResult(username, answer)
    ELSE IF answer.status = 200 THEN ProfileResult(username, answer)
    ELSE ErrorResult(username, HttpMessage(answer.status, answer.statusText))

\* part_000:44-110
validateGitHubUsername(username, answer) ==
    IF answer.fault # "none" THEN FaultResult(username, answer)
    ELSE IF answer.status = 200 THEN ProfileResult(username, answer)
    ELSE IF answer.status = 404 THEN DeletedResult(username)
    ELSE IF answer.status = 403
    THEN \* errorData is {} when the body does not parse (part_000:83)
         IF answer.json = "null" THEN ErrorResult(username, NullTypeError)
         ELSE IF /\ answer.json = "object"
                 /\ Len(answer.message) > 0
                 /\ includes(answer.message, RateLimitText)
         THEN ErrorResult(username, "Rate limit exceeded - please wait")
         ELSE ErrorResult(username, "Access forbidden - may be private or suspended account")
    ELSE ErrorResult(username, HttpMessage(answer.status, answer.statusText))

\* route.ts:178-222: the callback of chunk.map in validateUsernamesREST
validateUsernameREST(username, answer) ==
    IF answer.fault # "none" THEN FaultResult(username, answer)
    ELSE IF answer.status = 200 THEN ProfileResult(username, answer)
    ELSE IF answer.status = 404 THEN DeletedResult(username)
    ELSE IF answer.status = 403 THEN ErrorResult(username, "Rate limit exceeded - please wait")
    ELSE ErrorResult(username, HttpMessage(answer.status, answer.statusText))

\* The answer of the remote that a kind of the remote API stands for
AnswerOf(kind) ==
    IF kind \in {"200a", "200b"} THEN ResponseOf(200, "object", NoMessage, ProfileOf(kind))
    ELSE IF kind = "404" THEN ResponseOf(404, "object", NoMessage, "")
    ELSE IF kind = "403rl" THEN ResponseOf(403, "object", ApiRateLimitMessage, "")
    ELSE IF kind = "403fb" THEN ResponseOf(403, "object", AccessBlockedMessage, "")
    ELSE IF kind = "500" THEN ResponseOf(500, "object", NoMessage, "")
    ELSE FaultOf("Error", "fetch failed")

\* route.ts:178-222: one call of the single-resource protocol
RESTCallResult(username, kind) == validateUsernameREST(username, AnswerOf(kind))

\* The calls of one wave complete in some order: <<index in the wave, result>>;
\* issued is the number of calls of the earlier waves
CompletionOrders == {"issued", "reversed"}

Completed(chunk, w, order, issued, quota) ==
    LET done == [i \in 1..Len(chunk) |->
                    <<i, RESTCallResult(chunk[i], CallKind(w, chunk[i], issued + i, quota))>>]
    IN  IF order = "issued" THEN done ELSE Reverse(done)

\* route.ts:224: Promise.all gives the values in the order of the promises
PromiseAll(completed) ==
    [i \in 1..Len(completed) |->
        (completed[CHOOSE k \in 1..Len(completed) : completed[k][1] = i])[2]]

\* getCachedResult with an entry as old as the window still fresh
getCachedResultInclusive(cache, username, t) ==
    IF username \in DOMAIN cache /\ t - cache[username].timestamp <= CACHE_DURATION
    THEN cache[username].result
    ELSE Null

\* getCachedResult with the freshness comparison turned round
getCachedResultFlipped(cache, username, t) ==
    IF username \in DOMAIN cache /\ t - cache[username].timestamp > CACHE_DURATION
    THEN cache[username].result
    ELSE Null

\* route.ts:236-242
getCachedResult(cache, username, t) ==
    IF username \in DOMAIN cache /\ t - cache[username].timestamp < CACHE_DURATION
    THEN cache[username].result
    ELSE Null

\* route.ts:244-249
setCachedResult(cache, username, result, t) ==
    (username :> [result |-> result, timestamp |-> t]) @@ cache

\* results.forEach((result) => setCachedResult(result.username, result))
CacheResults(cache, results, t) ==
    LET names == {results[i].username : i \in 1..Len(results)}
        at(u) == {i \in 1..Len(results) : results[i].username = u}
        last(u) == CHOOSE i \in at(u) : \A j \in at(u) : j <= i
    IN  [u \in names \cup DOMAIN cache |->
            IF u \in names
            THEN setCachedResult(cache, u, results[last(u)], t)[u]
            ELSE cache[u]]

\* route.ts:277-287
CachedResults(usernames, cache, t) ==
    LET hits == SelectSeq(usernames, LAMBDA u : getCachedResult(cache, u, t) # Null)
    IN  [i \in 1..Len(hits) |-> getCachedResult(cache, hits[i], t)]

UncachedUsernames(usernames, cache, t) ==
    SelectSeq(usernames, LAMBDA u : getCachedResult(cache, u, t) = Null)

\* UseGraphQL with the threshold off by one
UseGraphQLAbove(method, githubToken, misses) ==
    method = "graphql" \/ (method = "auto" /\ githubToken /\ misses > AutoThreshold)

\* route.ts:293
UseGraphQL(method, githubToken, misses) ==
    method = "graphql" \/ (method = "auto" /\ githubToken /\ misses >= AutoThreshold)

\* route.ts:298
GraphQLPath(useGraphQL, githubToken) == useGraphQL /\ githubToken

\* route.ts:324: what the catch block hands to validateUsernamesREST
FallbackUsernames(r) == r.uncachedUsernames

\* the validator's results awaited but not assigned
RESTResultsDropped(uncachedResults, results) == uncachedResults

\* route.ts:314, 324: uncachedResults = await validateUsernamesREST(...)
RESTAssign(uncachedResults, results) == results

\* the response built by concatenating the two partial lists
AllResultsConcat(usernames, cachedResults, uncachedResults) ==
    cachedResults \o uncachedResults

\* route.ts:332-337
AllResults(usernames, cachedResults, uncachedResults) ==
    [i \in 1..Len(usernames) |->
        LET cached == FindByUsername(cachedResults, usernames[i])
            uncached == FindByUsername(uncachedResults, usernames[i])
        IN  IF cached # UndefinedObj THEN cached ELSE uncached]

\* route.ts:346-350
CacheStats(usernames, cachedResults, uncachedResults) ==
    [cached |-> Len(cachedResults), validated |-> Len(uncachedResults), total |-> Len(usernames)]

\* route.ts:339-352
Respond(r) ==
    [status |-> 200,
     results |-> AllResults(r.usernames, r.cachedResults, r.uncachedResults),
     rateLimit |-> [remaining |-> r.rateLimit.remaining, resetTime |-> r.rateLimit.resetTime,
                    limit |-> IF r.githubToken THEN TokenLimit ELSE AnonLimit],
     cacheStats |-> CacheStats(r.usernames, r.cachedResults, r.uncachedResults),
     method |-> IF r.useGraphQL THEN "graphql" ELSE "rest"]

----------------------------------------------------------------------------
(* Requests to the batch route *)

IPs == {"10.0.0.1"}

Methods == {"auto", "graphql", "rest"}

\* Lists of up to MaxShortLen usernames, in increasing order or repeated
ShortLists ==
    {l \in UNION {[1..n -> 1..MaxShortLen] : n \in 0..MaxShortLen} :
        \A i \in 1..(Len(l) - 1) : l[i] <= l[i + 1]}

\* Lists around the sizes the route's decisions turn on
LongLists ==
    {Range(n) : n \in {AutoThreshold - 1, AutoThreshold, GraphQLBatchSize + 1}}

UsernameLists == ShortLists \cup LongLists

\* The usernames field of a request body: an array, or something else
Bodies ==
    {[isArray |-> TRUE, usernames |-> l] : l \in UsernameLists}
        \cup {[isArray |-> FALSE, usernames |-> <<>>]}

NoRateLimit == [allowed |-> FALSE, remaining |-> 0, resetTime |-> 0]

NoResponse == [status |-> 0]

\* The locals of POST (route.ts:251-357); world is the world the remote
\* answers this request from and quota the remote's quota at its first
\* single-resource call, restCalls and gqlCalls record the remote calls the
\* request has issued
IdleReq ==
    [pc |-> "idle", ip |-> "", usernames |-> <<>>, githubToken |-> FALSE, method |-> "auto",
     rateLimit |-> NoRateLimit, cachedResults |-> <<>>, uncachedUsernames |-> <<>>,
     uncachedResults |-> <<>>, useGraphQL |-> FALSE, batch |-> 0, fallback |-> FALSE,
     restInput |-> <<>>, results |-> <<>>, wave |-> 0,
     world |-> 0, quota |-> 0, restCalls |-> <<>>, gqlCalls |-> <<>>]

NoCheck == [route |-> "none"]

\* The state the other components are in while one component is exercised
BatchIdle ==
    /\ validationCache = <<>>
    /\ req = IdleReq
    /\ response = NoResponse
    /\ nRequests = 0

LimiterIdle ==
    /\ plainRateLimitMap = <<>>
    /\ lastCheck = NoCheck
    /\ allowedAt = <<>>
    /\ nChecks = 0

\* What the callbacks created in one render see of the state
Closure(users, url, paused) ==
    [processedUsers |-> users, repositoryUrl |-> url, isPaused |-> paused]

NoToast == [title |-> "", description |-> ""]

\* The repositoryUrl and isPaused of the render that follows a change of
\* processedUsers (page.tsx:400, 816); paused is isPaused in that render
RetryClosure(paused) == [repositoryUrl |-> repositoryUrl, isPaused |-> paused]

IdleRun ==
    [pc |-> "idle", usernames |-> <<>>, repositoryUrl |-> "", chunks |-> <<>>, i |-> 0,
     results |-> <<>>, allResults |-> <<>>, validUsernames |-> <<>>,
     repoResults |-> <<>>, waits |-> 0, viaGitHub |-> FALSE,
     isPaused |-> FALSE, aborted |-> FALSE, waitTime |-> 0]

PageIdle ==
    /\ input = <<>>
    /\ tokenEntered = FALSE
    /\ parsedData = <<>>
    /\ selectedColumn = 0
    /\ processedUsers = <<>>
    /\ repositoryUrl = ""
    /\ captured = Closure(<<>>, "", FALSE)
    /\ timers = <<>>
    /\ run = IdleRun
    /\ otherRun = IdleRun
    /\ isValidating = FALSE
    /\ isValidatingGitHub = FALSE
    /\ validationController = "none"
    /\ cancelled = FALSE
    /\ retryClosure = [repositoryUrl |-> "", isPaused |-> FALSE]
    /\ isPaused = FALSE
    /\ lastToast = NoToast
    /\ sent = {}
    /\ lastProcessed = ""
    /\ nPageSteps = 0

IdleEngagement ==
    [pc |-> "idle", repositoryUrl |-> <<>>, isArray |-> TRUE, usernames |-> <<>>, parsed |-> Null]

EngagementIdle ==
    /\ engReq = IdleEngagement
    /\ engResponse = NoResponse

IdlePlainReq ==
    [pc |-> "idle", ip |-> "", usernames |-> <<>>, githubToken |-> FALSE,
     rateLimit |-> NoRateLimit, results |-> <<>>, world |-> 0, calls |-> <<>>]

PlainIdle ==
    /\ plainReq = IdlePlainReq
    /\ plainResponse = NoResponse
    /\ nPlainRequests = 0

NoCall == [fn |-> "none"]

CallIdle == call = NoCall

Init ==
    /\ now = 0
    /\ nTicks = 0
    /\ rateLimitMap = <<>>
    /\ BatchIdle
    /\ LimiterIdle
    /\ PageIdle
    /\ EngagementIdle
    /\ PlainIdle
    /\ CallIdle

\* route.ts:251-296 and, when every username is a cache hit, 332-352: the
\* synchronous part of POST up to its first remote call
PostReceive(ip, isArray, usernames, githubToken, method) ==
    /\ req.pc \in {"idle", "done"}
    /\ nRequests < MaxRequests
    /\ nRequests' = nRequests + 1
    /\ UNCHANGED <<now, nTicks, limiterVars, pageVars, engagementVars, plainVars, callVars>>
    /\ LET r0 == [IdleReq EXCEPT !.ip = ip, !.usernames = usernames,
                                 !.githubToken = githubToken, !.method = method]
       IN
       IF ~isArray \/ Len(usernames) = 0
       THEN /\ req' = [r0 EXCEPT !.pc = "done"]
            /\ response' = [status |-> 400, error |-> "Invalid request: usernames array is required"]
            /\ UNCHANGED <<validationCache, rateLimitMap>>
       ELSE IF Len(usernames) > MaxUsernames
       THEN /\ req' = [r0 EXCEPT !.pc = "done"]
            /\ response' = [status |-> 400, error |-> "Too many usernames. Maximum 5000 per request."]
            /\ UNCHANGED <<validationCache, rateLimitMap>>
       ELSE
       LET rl == checkRateLimit(rateLimitMap, ip, githubToken, now)
           rateLimit == [allowed |-> rl.allowed, remaining |-> rl.remaining,
                         resetTime |-> rl.resetTime]
       IN
       /\ rateLimitMap' = rl.map
       /\ UNCHANGED validationCache
       /\ IF ~rl.allowed
          THEN /\ req' = [r0 EXCEPT !.pc = "done", !.rateLimit = rateLimit]
               /\ response' = [status |-> 429, error |-> "Rate limit exceeded. Please try again later.",
                               resetTime |-> rl.resetTime, remaining |-> rl.remaining]
          ELSE
          LET misses == UncachedUsernames(usernames, validationCache, now)
              useGraphQL == Len(misses) > 0 /\ UseGraphQL(method, githubToken, Len(misses))
              r1 == [r0 EXCEPT !.rateLimit = rateLimit,
                               !.cachedResults = CachedResults(usernames, validationCache, now),
                               !.uncachedUsernames = misses,
                               !.useGraphQL = useGraphQL]
          IN
          IF Len(misses) = 0
          THEN /\ req' = [r1 EXCEPT !.pc = "done"]
               /\ response' = Respond(r1)
          ELSE IF GraphQLPath(useGraphQL, githubToken)
          THEN /\ req' = [r1 EXCEPT !.pc = "graphql", !.batch = 1]
               /\ response' = NoResponse
          ELSE /\ req' = [r1 EXCEPT !.pc = "rest", !.restInput = misses, !.wave = 1]
               /\ response' = NoResponse

FirstCall(r) == Len(r.restCalls) = 0 /\ Len(r.gqlCalls) = 0

\* route.ts:305-311 for one batch, and 319-325 when the batch query fails
GraphQLBatch(ok, w) ==
    /\ req.pc = "graphql"
    /\ FirstCall(req) \/ w = req.world
    /\ UNCHANGED <<now, rateLimitMap, nRequests, nTicks, limiterVars, pageVars, engagementVars, plainVars, callVars>>
    /\ LET batches == Chunks(req.uncachedUsernames, GraphQLBatchSize)
           batch == batches[req.batch]
       IN
       IF ok
       THEN LET batchResults == validateUsernamesGraphQL(batch, w)
                r1 == [req EXCEPT !.uncachedResults = @ \o batchResults,
                                  !.world = w,
                                  !.gqlCalls = Append(@, batch),
                                  !.batch = @ + 1]
            IN  /\ validationCache' = CacheResults(validationCache, batchResults, now)
                /\ IF req.batch = Len(batches)
                   THEN /\ req' = [r1 EXCEPT !.pc = "done"]
                        /\ response' = Respond(r1)
                   ELSE /\ req' = r1
                        /\ UNCHANGED response
       ELSE /\ req' = [req EXCEPT !.pc = "rest", !.fallback = TRUE,
                                  !.world = w,
                                  !.gqlCalls = Append(@, batch),
                                  !.restInput = FallbackUsernames(req), !.wave = 1]
            /\ UNCHANGED <<validationCache, response>>

\* route.ts:177-231 for one wave of validateUsernamesREST; after the last wave
\* route.ts:314-317 (or 324-325) and 332-352
RESTWave(order, w, quota) ==
    /\ req.pc = "rest"
    /\ FirstCall(req) \/ w = req.world
    /\ Len(req.restCalls) = 0 \/ quota = req.quota
    /\ UNCHANGED <<now, rateLimitMap, nRequests, nTicks, limiterVars, pageVars, engagementVars, plainVars, callVars>>
    /\ LET chunks == Chunks(req.restInput, RESTConcurrency)
           chunk == chunks[req.wave]
           results == req.results
                          \o PromiseAll(Completed(chunk, w, order, Len(req.restCalls), quota))
           r1 == [req EXCEPT !.results = results, !.wave = @ + 1, !.world = w,
                             !.quota = quota,
                             !.restCalls = @ \o chunk]
       IN
       IF req.wave = Len(chunks)
       THEN LET r2 == [r1 EXCEPT !.uncachedResults = RESTAssign(@, results)]
            IN  /\ validationCache' = CacheResults(validationCache, r2.uncachedResults, now)
                /\ req' = [r2 EXCEPT !.pc = "done"]
                /\ response' = Respond(r2)
       ELSE /\ req' = r1
            /\ UNCHANGED <<validationCache, response>>

TickSteps == {CACHE_DURATION - 1, CACHE_DURATION}

Tick(d) ==
    /\ nTicks < MaxTicks
    /\ nTicks' = nTicks + 1
    /\ now' = now + d
    /\ UNCHANGED <<rateLimitMap, batchVars, limiterVars, pageVars, engagementVars, plainVars, callVars>>

Next ==
    \/ \E ip \in IPs, body \in Bodies, githubToken \in BOOLEAN, method \in Methods :
          PostReceive(ip, body.isArray, body.usernames, githubToken, method)
    \/ \E ok \in BOOLEAN, w \in Worlds : GraphQLBatch(ok, w)
    \/ \E order \in CompletionOrders, w \in Worlds, quota \in Quotas :
          RESTWave(order, w, quota)
    \/ \E d \in TickSteps : Tick(d)

Spec == Init /\ [][Next]_vars

----------------------------------------------------------------------------
(* Properties of the batch route, checked under Spec *)

\* The route has answered the request in req with a success response
Done200 == req.pc = "done" /\ response.status = 200

Terminal == {"valid", "deleted", "error"}

\* C1: an accepted request's results list is as long as the submitted list,
\* and results[i].username = usernames[i] at every position i, whatever was a
\* cache hit, however the misses were chunked and however the calls completed.
C1_OrderPreserved ==
    Done200 =>
        /\ Len(response.results) = Len(req.usernames)
        /\ \A i \in 1..Len(req.usernames) :
              /\ response.results[i] # UndefinedObj
              /\ response.results[i].username = req.usernames[i]

\* A served request with a cache hit placed after a miss, whose misses took
\* more than one wave of single-resource calls
C1_Witness ==
    /\ Done200
    /\ Len(req.restCalls) > RESTConcurrency
    /\ \E i, j \in 1..Len(req.usernames) :
          /\ i < j
          /\ req.usernames[i] \in SeqToSet(req.uncachedUsernames)
          /\ req.usernames[j] \notin SeqToSet(req.uncachedUsernames)

\* The chunk whose batch query failed
FailedChunk == req.gqlCalls[Len(req.gqlCalls)]

FaultKinds == {"403rl", "403fb", "500", "fault"}

\* C2: when the batch query fails for a chunk, every handle of that chunk has
\* one terminal result at each of its positions in the response, and a handle
\* whose fallback call fails too has an error result there.
C2_FallbackComplete ==
    (Done200 /\ req.fallback) =>
        /\ Len(response.results) = Len(req.usernames)
        /\ \A i \in 1..Len(req.usernames) :
              req.usernames[i] \in SeqToSet(FailedChunk) =>
                 /\ response.results[i] # UndefinedObj
                 /\ response.results[i].username = req.usernames[i]
                 /\ response.results[i].status \in Terminal
                 /\ RemoteKind(req.world, req.usernames[i]) \in FaultKinds
                       => response.results[i].status = "error"

\* The second batch query of a request failed, and so did the fallback call
\* for a handle of that chunk
C2_Witness ==
    /\ Done200
    /\ req.fallback
    /\ Len(req.gqlCalls) = 2
    /\ \E h \in SeqToSet(FailedChunk) : RemoteKind(req.world, h) \in FaultKinds

\* The step in which the route receives a request
Received == nRequests' = nRequests + 1

\* Every submitted username has a cache entry younger than the freshness window
AllFresh(usernames) ==
    \A i \in 1..Len(usernames) :
        /\ usernames[i] \in DOMAIN validationCache
        /\ now - validationCache[usernames[i]].timestamp < CACHE_DURATION

\* C3: re-submitting handles within the freshness window after they were
\* resolved returns the stored results and leaves the caller's quota window
\* untouched.
C3_CacheHitsCostNoQuota ==
    [][(Received /\ response'.status = 200 /\ AllFresh(req'.usernames)) =>
          /\ \A i \in 1..Len(req'.usernames) :
                response'.results[i] = validationCache[req'.usernames[i]].result
          /\ rateLimitMap' = rateLimitMap]_vars

\* C5: a request whose n handles all have a fresh cache entry issues no
\* remote call and reports cacheStats {cached: n, validated: 0, total: n};
\* every accepted request reports cached + validated = total = n.
C5_CacheStats ==
    [][/\ (Received /\ response'.status # 400 /\ response'.status # 429
              /\ AllFresh(req'.usernames)) =>
             /\ req'.pc = "done"
             /\ response'.status = 200
             /\ Len(req'.restCalls) = 0 /\ Len(req'.gqlCalls) = 0
             /\ response'.cacheStats =
                   [cached |-> Len(req'.usernames), validated |-> 0,
                    total |-> Len(req'.usernames)]
       /\ (req'.pc = "done" /\ response'.status = 200) =>
             /\ response'.cacheStats.total = Len(req'.usernames)
             /\ response'.cacheStats.cached + response'.cacheStats.validated
                   = response'.cacheStats.total]_vars

\* A request answered from the cache alone
C5_Witness ==
    /\ Done200
    /\ Len(req.usernames) > 0
    /\ AllFresh(req.usernames)
    /\ Len(req.restCalls) = 0 /\ Len(req.gqlCalls) = 0
    /\ response.cacheStats.cached = Len(req.usernames)

Misses == Len(req.uncachedUsernames)

\* C9 as stated: with at least one miss, the batch-query validator is used
\* iff method = graphql, or method = auto with credentials and >= 10 misses;
\* otherwise the single-resource validator is used.
C9_Original ==
    (Done200 /\ Misses > 0) =>
        LET chosen == \/ req.method = "graphql"
                      \/ req.method = "auto" /\ req.githubToken /\ Misses >= AutoThreshold
        IN  /\ Len(req.gqlCalls) > 0 <=> chosen
            /\ ~chosen => req.restCalls = req.uncachedUsernames

\* C9 amended: the batch-query validator is used iff credentials are present
\* and (method = graphql, or method = auto and >= 10 misses); in every other
\* case the misses are validated by the single-resource validator alone.
C9_StrategyNeedsCredentials ==
    (Done200 /\ Misses > 0) =>
        LET chosen == /\ req.githubToken
                      /\ \/ req.method = "graphql"
                         \/ req.method = "auto" /\ Misses >= AutoThreshold
        IN  /\ Len(req.gqlCalls) > 0 <=> chosen
            /\ ~chosen => req.restCalls = req.uncachedUsernames

\* method = auto with credentials: exactly at the threshold the batch query
\* is used
C9_Witness ==
    /\ Done200
    /\ req.method = "auto" /\ req.githubToken
    /\ Misses = AutoThreshold
    /\ Len(req.gqlCalls) > 0


(***************************************************************************)
(* The rate limiters of the two validation routes, call by call.  A        *)
(* behaviour starts from empty maps or inside a window opened at time 0    *)
(* in which all but two of the checks a ceiling allows have been made.     *)
(***************************************************************************)
LimiterIPs == {"10.0.0.1", "10.0.0.2"}

Routes == {"batch", "plain"}

\* Windows already open when a behaviour starts: the route and the checks allowed so far
OpenWindows ==
    {[route |-> "batch", count |-> TokenLimit - 2],
     [route |-> "batch", count |-> AnonLimit - 2],
     [route |-> "plain", count |-> PlainLimit - 2]}

WindowOf(w) == ("10.0.0.1" :> [count |-> w.count, resetTime |-> HOUR])

InitLimiter ==
    /\ now = 0
    /\ nTicks = 0
    /\ BatchIdle
    /\ PageIdle
    /\ EngagementIdle
    /\ PlainIdle
    /\ CallIdle
    /\ lastCheck = NoCheck
    /\ nChecks = 0
    /\ \/ /\ rateLimitMap = <<>>
          /\ plainRateLimitMap = <<>>
          /\ allowedAt = <<>>
       \/ \E w \in OpenWindows :
             /\ rateLimitMap = IF w.route = "batch" THEN WindowOf(w) ELSE <<>>
             /\ plainRateLimitMap = IF w.route = "plain" THEN WindowOf(w) ELSE <<>>
             /\ allowedAt = (<<w.route, "10.0.0.1", 0>> :> w.count)

\* One more allowed check of the route by ip at time t
Allowed(log, route, ip, t) ==
    LET key == <<route, ip, t>>
    IN  IF key \in DOMAIN log THEN [log EXCEPT ![key] = @ + 1] ELSE (key :> 1) @@ log

CheckOf(route, ip, hasToken, r) ==
    [route |-> route, ip |-> ip, hasToken |-> hasToken,
     allowed |-> r.allowed, remaining |-> r.remaining, resetTime |-> r.resetTime]

\* route.ts:265: the batch route asks its limiter
CheckBatch(ip, hasToken) ==
    /\ nChecks < MaxChecks
    /\ LET r == checkRateLimit(rateLimitMap, ip, hasToken, now)
       IN  /\ rateLimitMap' = r.map
           /\ lastCheck' = CheckOf("batch", ip, hasToken, r)
           /\ allowedAt' = IF r.allowed THEN Allowed(allowedAt, "batch", ip, now) ELSE allowedAt
    /\ nChecks' = nChecks + 1
    /\ UNCHANGED <<now, nTicks, plainRateLimitMap, batchVars, pageVars, engagementVars, plainVars, callVars>>

\* validate-github/route.ts:115: the plain route asks its limiter
CheckPlain(ip) ==
    /\ nChecks < MaxChecks
    /\ LET r == checkRateLimitPlain(plainRateLimitMap, ip, now)
       IN  /\ plainRateLimitMap' = r.map
           /\ lastCheck' = CheckOf("plain", ip, FALSE, r)
           /\ allowedAt' = IF r.allowed THEN Allowed(allowedAt, "plain", ip, now) ELSE allowedAt
    /\ nChecks' = nChecks + 1
    /\ UNCHANGED <<now, nTicks, rateLimitMap, batchVars, pageVars, engagementVars, plainVars, callVars>>

\* Clock advances that end on, and just past, the resetTime of a window opened before them
WindowSteps == {HOUR, HOUR + 1}

NextLimiter ==
    \/ \E ip \in LimiterIPs, hasToken \in BOOLEAN : CheckBatch(ip, hasToken)
    \/ \E ip \in LimiterIPs : CheckPlain(ip)
    \/ \E d \in WindowSteps : Tick(d)

SpecLimiter == InitLimiter /\ [][NextLimiter]_vars

(***************************************************************************)
(* Properties of the rate limiters, checked under SpecLimiter *)
(***************************************************************************)
LimiterMap(route) == IF route = "batch" THEN rateLimitMap ELSE plainRateLimitMap

RECURSIVE SumAllowed(_)
SumAllowed(keys) ==
    IF keys = {} THEN 0
    ELSE LET key == CHOOSE x \in keys : TRUE
         IN  allowedAt[key] + SumAllowed(keys \ {key})

\* The checks of the route by ip that were allowed in the caller's current window
AllowedInWindow(route, ip) ==
    LET start == LimiterMap(route)[ip].resetTime - HOUR
    IN  SumAllowed({key \in DOMAIN allowedAt :
                       key[1] = route /\ key[2] = ip /\ key[3] >= start})

Ceiling(check) ==
    IF check.route = "plain" THEN PlainLimit
    ELSE IF check.hasToken THEN TokenLimit ELSE AnonLimit

\* C4: with k the checks allowed so far in the caller's window (the one just
\* made included) and ceiling the ceiling of the check just made (5000 with
\* credentials and 60 without on the batch route, 30 on the plain route): an
\* allowed check reports remaining = ceiling - k and k <= ceiling; a check is
\* denied only when ceiling checks have been allowed in the window, and it
\* reports remaining 0 and the window's resetTime.
C4_RemainingIsCeilingMinusAllowed ==
    lastCheck.route \in Routes =>
        LET k == AllowedInWindow(lastCheck.route, lastCheck.ip)
            ceiling == Ceiling(lastCheck)
        IN  /\ lastCheck.allowed =>
                  /\ k <= ceiling
                  /\ lastCheck.remaining = ceiling - k
            /\ ~lastCheck.allowed =>
                  /\ k >= ceiling
                  /\ lastCheck.remaining = 0
                  /\ lastCheck.resetTime = LimiterMap(lastCheck.route)[lastCheck.ip].resetTime

\* A check with credentials is denied after exactly 5000 checks were allowed in the window
C4_Witness ==
    /\ lastCheck.route = "batch"
    /\ lastCheck.hasToken
    /\ ~lastCheck.allowed
    /\ AllowedInWindow("batch", lastCheck.ip) = TokenLimit
    /\ now = HOUR

(***************************************************************************)
(* src/app/page.tsx: strings                                               *)
(***************************************************************************)
LowerLetters ==
    <<"a", "b", "c", "d", "e", "f", "g", "h", "i", "j", "k", "l", "m",
      "n", "o", "p", "q", "r", "s", "t", "u", "v", "w", "x", "y", "z">>

UpperLetters ==
    <<"A", "B", "C", "D", "E", "F", "G", "H", "I", "J", "K", "L", "M",
      "N", "O", "P", "Q", "R", "S", "T", "U", "V", "W", "X", "Y", "Z">>

Digits == {"0", "1", "2", "3", "4", "5", "6", "7", "8", "9"}

\* [a-zA-Z0-9]
Alnum == SeqToSet(LowerLetters) \cup SeqToSet(UpperLetters) \cup Digits

Whitespace == {" ", "\t"}

LowerChar(c) ==
    IF \E i \in 1..Len(UpperLetters) : UpperLetters[i] = c
    THEN LowerLetters[CHOOSE i \in 1..Len(UpperLetters) : UpperLetters[i] = c]
    ELSE c

\* String.prototype.toLowerCase
toLowerCase(s) == [i \in 1..Len(s) |-> LowerChar(s[i])]

Least(S) == CHOOSE x \in S : \A y \in S : x <= y

Greatest(S) == CHOOSE x \in S : \A y \in S : x >= y

\* String.prototype.trim
trim(s) ==
    LET inked == {i \in 1..Len(s) : s[i] \notin Whitespace}
    IN  IF inked = {} THEN <<>> ELSE SubSeq(s, Least(inked), Greatest(inked))

\* String.prototype.startsWith
startsWith(s, prefix) == Len(s) >= Len(prefix) /\ SubSeq(s, 1, Len(prefix)) = prefix

\* page.tsx:263  replace(/^(?:github:|gh:|git:)/i, "")
RemovePrefix(s) ==
    LET prefixes == << <<"g", "i", "t", "h", "u", "b", ":">>, <<"g", "h", ":">>, <<"g", "i", "t", ":">> >>
        hits == {i \in 1..Len(prefixes) :
                    /\ Len(s) >= Len(prefixes[i])
                    /\ toLowerCase(SubSeq(s, 1, Len(prefixes[i]))) = prefixes[i]}
    IN  IF hits = {} THEN s ELSE SubSeq(s, Len(prefixes[Least(hits)]) + 1, Len(s))

\* page.tsx:266  replace(/\/+$/, "")
RemoveTrailingSlashes(s) ==
    LET kept == {i \in 1..Len(s) : s[i] # "/"}
    IN  IF kept = {} THEN <<>> ELSE SubSeq(s, 1, Greatest(kept))

\* null, for a username: cleanUsername returns no empty string, so the empty
\* string stands for null (both are falsy where the page tests a username)
NoUsername == <<>>

\* page.tsx:277  /^[a-zA-Z0-9]([a-zA-Z0-9-]*[a-zA-Z0-9])?$/
UsernamePattern(s) ==
    /\ Len(s) >= 1
    /\ s[1] \in Alnum
    /\ s[Len(s)] \in Alnum
    /\ \A i \in 1..Len(s) : s[i] \in Alnum \cup {"-"}

\* cleanUsername without the length validation of page.tsx:282-284
cleanUsernameAnyLength(username) ==
    IF Len(username) = 0 THEN NoUsername
    ELSE IF ~UsernamePattern(trim(username)) THEN NoUsername
    ELSE trim(username)

\* page.tsx:271-287
cleanUsername(username) ==
    IF Len(username) = 0 THEN NoUsername
    ELSE LET trimmed == trim(username)
         IN  IF ~UsernamePattern(trimmed) THEN NoUsername
             ELSE IF Len(trimmed) = 0 \/ Len(trimmed) > MaxHandleLen THEN NoUsername
             ELSE trimmed

\* page.tsx:237-252: each of the three URL patterns needs a literal "." in the value
UrlPatternsCanMatch(value) == "." \in SeqToSet(value)

\* page.tsx:254-266: the string extractUsername hands to cleanUsername for a direct username
DirectHandle(value) ==
    LET unprefixed == IF startsWith(value, <<"@">>) THEN SubSeq(value, 2, Len(value)) ELSE value
    IN  trim(RemoveTrailingSlashes(RemovePrefix(unprefixed)))

\* page.tsx:230-269, for values no URL pattern can match
extractUsername(value) ==
    IF Len(value) = 0 THEN NoUsername
    ELSE IF Len(trim(value)) = 0 THEN NoUsername
    ELSE cleanUsername(DirectHandle(trim(value)))

(***************************************************************************)
(* src/app/page.tsx: processing of the input                               *)
(***************************************************************************)
User(originalValue, username, status, error, index) ==
    [originalValue |-> originalValue, username |-> username, status |-> status,
     error |-> error, index |-> index, repositoryEngagement |-> FALSE]

\* String.prototype.toLowerCase compared without folding the case
SameCaseKey(username) == username

\* page.tsx:314, 877, 895: the key under which a username is remembered
LowerKey(username) == toLowerCase(username)

\* processUsernames without the marking of the first occurrence
FirstOccurrenceKept(users, firstIndex) == users

\* page.tsx:320-326
MarkFirstOccurrence(users, firstIndex) ==
    [i \in 1..Len(users) |->
        IF /\ i = Least({j \in 1..Len(users) : users[j].index = firstIndex})
           /\ users[i].status = "pending"
        THEN [users[i] EXCEPT !.status = "duplicate", !.error = "Duplicate username found"]
        ELSE users[i]]

\* page.tsx:306-343: the body of the forEach, for row number index (from 0)
ProcessRow(acc, cell, index) ==
    LET originalValue == cell
        username == extractUsername(originalValue)
        lowerUsername == LowerKey(username)
    IN  IF Len(username) > 0
        THEN IF lowerUsername \in DOMAIN acc.seenUsernames
             THEN [acc EXCEPT
                     !.users = Append(MarkFirstOccurrence(acc.users, acc.seenUsernames[lowerUsername]),
                                      User(originalValue, username, "duplicate",
                                           "Duplicate username found", index))]
             ELSE [acc EXCEPT
                     !.seenUsernames = (lowerUsername :> index) @@ acc.seenUsernames,
                     !.validUsernameCount = @ + 1,
                     !.users = Append(acc.users,
                                      User(originalValue, username, "pending", Undefined, index))]
        ELSE [acc EXCEPT
                !.users = Append(acc.users,
                                 User(originalValue, username, "invalid",
                                      "Invalid username format or not found", index))]

RECURSIVE ProcessRows(_, _, _)
ProcessRows(acc, column, n) ==
    IF n = Len(column) THEN acc
    ELSE ProcessRows(ProcessRow(acc, column[n + 1], n), column, n + 1)

\* page.tsx:300-343
ProcessColumn(column) ==
    ProcessRows([users |-> <<>>, seenUsernames |-> <<>>, validUsernameCount |-> 0], column, 0)

\* page.tsx:867: the lines of the text that are not blank
Lines(text) == SelectSeq(text, LAMBDA line : Len(trim(line)) > 0)

\* page.tsx:872-883: the usernames seen more than once
DuplicateUsernames(lines) ==
    {LowerKey(extractUsername(trim(lines[i]))) : i \in
        {j \in 1..Len(lines) :
            /\ Len(extractUsername(trim(lines[j]))) > 0
            /\ \E k \in 1..(j - 1) :
                  /\ Len(extractUsername(trim(lines[k]))) > 0
                  /\ LowerKey(extractUsername(trim(lines[k]))) = LowerKey(extractUsername(trim(lines[j])))}}

\* page.tsx:867-899
ProcessLines(text) ==
    LET lines == Lines(text)
        duplicateUsernames == DuplicateUsernames(lines)
        first == [i \in 1..Len(lines) |->
                    LET username == extractUsername(trim(lines[i]))
                    IN  User(trim(lines[i]), username,
                             IF Len(username) > 0 THEN "pending" ELSE "invalid",
                             IF Len(username) > 0 THEN Undefined ELSE "Invalid username format",
                             i - 1)]
    IN  [i \in 1..Len(first) |->
            IF Len(first[i].username) > 0 /\ LowerKey(first[i].username) \in duplicateUsernames
            THEN [first[i] EXCEPT !.status = "duplicate", !.error = "Duplicate username found"]
            ELSE first[i]]

(***************************************************************************)
(* src/app/page.tsx: validation of the processed records                    *)
(***************************************************************************)
\* page.tsx:926
UsersToValidate(users) ==
    SelectSeq(users, LAMBDA user : user.status = "pending" /\ Len(user.username) > 0)

\* page.tsx:939
UsernamesOf(users) == [i \in 1..Len(users) |-> users[i].username]

Request(endpoint, usernames) == [endpoint |-> endpoint, usernames |-> usernames]

\* What the validation routes can answer for one username
PageKinds == <<"deleted", "valid", "rate", "other">>

PageResult(username, kind) ==
    IF kind = "valid" THEN [username |-> username, status |-> "valid", error |-> Undefined]
    ELSE IF kind = "deleted"
    THEN [username |-> username, status |-> "deleted", error |-> "User not found or account deleted"]
    ELSE IF kind = "rate"
    THEN [username |-> username, status |-> "error", error |-> "Rate limit exceeded - please wait"]
    ELSE [username |-> username, status |-> "error", error |-> "HTTP 500: Internal Server Error"]

\* The results of a validation route for the usernames of one request, in world w
PageResults(usernames, w) ==
    [i \in 1..Len(usernames) |->
        PageResult(usernames[i], PageKinds[((i + w) % Len(PageKinds)) + 1])]

\* page.tsx:473, 720
ValidUsernames(results) ==
    UsernamesOf(SelectSeq(results, LAMBDA r : r.status = "valid"))

\* Array.prototype.find by username: the first result for the username, if any
ResultFor(results, username) ==
    LET hits == {i \in 1..Len(results) : results[i].username = username}
    IN  IF hits = {} THEN UndefinedObj ELSE results[Least(hits)]

HasResult(results, username) == \E i \in 1..Len(results) : results[i].username = username

\* page.tsx:576-578, 757-759
EngagementFound(engagementUsers, username) ==
    \E i \in 1..Len(engagementUsers) : toLowerCase(engagementUsers[i]) = toLowerCase(username)

\* page.tsx:569-608; engagementUsers is empty when repositoryEngagementData is null
MergeBatch(prev, usernames, results, engagementUsers) ==
    [i \in 1..Len(prev) |->
        LET user == prev[i]
        IN  IF /\ Len(user.username) > 0
               /\ user.username \in SeqToSet(usernames)
               /\ HasResult(results, user.username)
            THEN LET result == ResultFor(results, user.username)
                 IN  [user EXCEPT
                        !.status = result.status,
                        !.error = result.error,
                        !.repositoryEngagement =
                            /\ Len(engagementUsers) > 0
                            /\ result.status = "valid"
                            /\ EngagementFound(engagementUsers, user.username)]
            ELSE user]

\* page.tsx:684-699
MergeChunk(prev, usernames, allResults) ==
    [i \in 1..Len(prev) |->
        LET user == prev[i]
        IN  IF /\ Len(user.username) > 0
               /\ user.username \in SeqToSet(usernames)
               /\ HasResult(allResults, user.username)
            THEN LET result == ResultFor(allResults, user.username)
                 IN  [user EXCEPT !.status = result.status, !.error = result.error]
            ELSE user]

\* page.tsx:754-773
MergeEngagement(prev, engagementUsers) ==
    [i \in 1..Len(prev) |->
        LET user == prev[i]
        IN  IF /\ Len(user.username) > 0
               /\ user.status = "valid"
               /\ EngagementFound(engagementUsers, user.username)
            THEN [user EXCEPT !.repositoryEngagement = TRUE]
            ELSE user]

\* page.tsx:710-714
ErrorResults(chunk, message) ==
    [i \in 1..Len(chunk) |-> [username |-> chunk[i], status |-> "error", error |-> message]]

(***************************************************************************)
(* The page as a state machine.  The user has one input at hand: it is the  *)
(* text typed into the manual tab and the first column of the file; the     *)
(* file's second column is a part of OctocatInput.  The token is entered    *)
(* before anything else and left alone.  SpecPage follows one validation    *)
(* run at a time.                                                           *)
(***************************************************************************)
Rep(c, n) == [i \in 1..n |-> c]

octocat == <<"o", "c", "t", "o", "c", "a", "t">>

OCTOCAT == <<"O", "C", "T", "O", "C", "A", "T">>

LongHandle == Rep("a", MaxHandleLen + 1)

OctocatInput == <<octocat, OCTOCAT, LongHandle>>

Values ==
    {octocat, OCTOCAT, LongHandle, Rep("a", MaxHandleLen), <<>>,
     <<"-", "a">>, <<"a", "-">>, <<"a", "_", "b">>,
     <<"g", "h", ":">> \o octocat \o <<"/">>}

RECURSIVE SeqsUpTo(_, _)
SeqsUpTo(S, n) ==
    IF n = 0 THEN {<<>>}
    ELSE LET shorter == SeqsUpTo(S, n - 1)
         IN  shorter \cup {Append(s, x) : s \in {t \in shorter : Len(t) = n - 1}, x \in S}

\* The values of OctocatInput and another spelling of its handle
CoreValues == {octocat, OCTOCAT, LongHandle, <<"g", "h", ":">> \o octocat \o <<"/">>}

\* Every input of fewer than MaxRows values, and the inputs of MaxRows core
\* values; the values are direct usernames, which no URL pattern can match
Inputs ==
    {column \in SeqsUpTo(Values, MaxRows - 1) \cup SeqsUpTo(CoreValues, MaxRows) :
        \A i \in 1..Len(column) : ~UrlPatternsCanMatch(column[i])}

\* The file the user has: the input as its first column, and a second column
File(column) == <<column, SubSeq(OctocatInput, 1, Min(Len(column), Len(OctocatInput)))>>

RepositoryUrls == {"", "https://github.com/vercel/next.js"}

InitPage ==
    /\ now = 0
    /\ nTicks = 0
    /\ rateLimitMap = <<>>
    /\ BatchIdle
    /\ LimiterIdle
    /\ EngagementIdle
    /\ PlainIdle
    /\ CallIdle
    /\ input \in Inputs
    /\ tokenEntered \in BOOLEAN
    /\ parsedData = <<>>
    /\ selectedColumn = 0
    /\ processedUsers = <<>>
    /\ repositoryUrl = ""
    /\ captured = Closure(<<>>, "", FALSE)
    /\ timers = <<>>
    /\ run = IdleRun
    /\ otherRun = IdleRun
    /\ isValidating = FALSE
    /\ isValidatingGitHub = FALSE
    /\ validationController = "none"
    /\ cancelled = FALSE
    /\ retryClosure = [repositoryUrl |-> "", isPaused |-> FALSE]
    /\ isPaused = FALSE
    /\ lastToast = NoToast
    /\ sent = {}
    /\ lastProcessed = ""
    /\ nPageSteps = 0

NotPage ==
    <<now, nTicks, rateLimitMap, batchVars, limiterVars, engagementVars, plainVars, callVars>>

\* page.tsx:188-228: both headers of the file name a GitHub column, the first is selected
handleFileUpload ==
    /\ nPageSteps < MaxPageSteps
    /\ parsedData' = File(input)
    /\ selectedColumn' = 1
    /\ processedUsers' = <<>>
    /\ captured' = Closure(<<>>, repositoryUrl, isPaused)
    /\ lastProcessed' = ""
    /\ retryClosure' = RetryClosure(isPaused)
    /\ nPageSteps' = nPageSteps + 1
    /\ UNCHANGED <<otherRun, flagVars, input, tokenEntered, repositoryUrl, timers, run, sent, NotPage>>

\* The user picks another column; processUsernames is created anew (page.tsx:367)
setSelectedColumn(column) ==
    /\ nPageSteps < MaxPageSteps
    /\ Len(parsedData) > 0
    /\ column # selectedColumn
    /\ selectedColumn' = column
    /\ captured' = Closure(processedUsers, repositoryUrl, isPaused)
    /\ nPageSteps' = nPageSteps + 1
    /\ UNCHANGED <<otherRun, flagVars, retryClosure, input, tokenEntered, parsedData, processedUsers, repositoryUrl, timers, run,
                   sent, lastProcessed, NotPage>>

\* The user edits the repository URL; processUsernames is created anew (page.tsx:367)
setRepositoryUrl(url) ==
    /\ nPageSteps < MaxPageSteps
    /\ url # repositoryUrl
    /\ repositoryUrl' = url
    /\ captured' = Closure(processedUsers, url, isPaused)
    /\ nPageSteps' = nPageSteps + 1
    /\ UNCHANGED <<otherRun, flagVars, retryClosure, input, tokenEntered, parsedData, selectedColumn, processedUsers, timers, run,
                   sent, lastProcessed, NotPage>>

\* page.tsx:289-367
processUsernames ==
    /\ nPageSteps < MaxPageSteps
    /\ Len(parsedData) > 0
    /\ selectedColumn \in 1..Len(parsedData)
    /\ LET processed == ProcessColumn(parsedData[selectedColumn])
       IN  /\ processedUsers' = processed.users
           /\ timers' = IF /\ processed.validUsernameCount > 0
                           /\ processed.validUsernameCount <= AutoValidateLimit
                        THEN Append(timers, captured)
                        ELSE timers
    /\ lastProcessed' = "column"
    /\ retryClosure' = RetryClosure(isPaused)
    /\ nPageSteps' = nPageSteps + 1
    /\ UNCHANGED <<otherRun, flagVars, input, tokenEntered, parsedData, selectedColumn, repositoryUrl, captured, run,
                   sent, NotPage>>

\* page.tsx:862-913
processManualInput ==
    /\ nPageSteps < MaxPageSteps
    /\ Len(Lines(input)) > 0
    /\ processedUsers' = ProcessLines(input)
    /\ parsedData' = <<>>
    /\ captured' = IF Len(parsedData) > 0
                   THEN Closure(ProcessLines(input), repositoryUrl, isPaused)
                   ELSE captured
    /\ lastProcessed' = "manual"
    /\ retryClosure' = RetryClosure(isPaused)
    /\ nPageSteps' = nPageSteps + 1
    /\ UNCHANGED <<otherRun, flagVars, input, tokenEntered, selectedColumn, repositoryUrl, timers, run, sent, NotPage>>

\* page.tsx:406-408, 807-809, 937, 942: what the start and the end of the run
\* that a step follows do to the flags; a run that ends was started by
\* validateWithGitHub (viaGitHub) or by retryFailedUsernames
SetFlags ==
    LET started == run.pc = "idle" /\ run'.pc # "idle"
        ended == run.pc # "idle" /\ run'.pc = "idle"
    IN  /\ isValidating' = IF started THEN TRUE ELSE IF ended THEN FALSE ELSE isValidating
        /\ validationController' =
               IF started THEN "run" ELSE IF ended THEN "none" ELSE validationController
        /\ isValidatingGitHub' =
               IF started /\ run'.viaGitHub THEN TRUE
               ELSE IF ended /\ run.viaGitHub THEN FALSE
               ELSE isValidatingGitHub
        /\ cancelled' = IF started THEN FALSE ELSE cancelled
        /\ isPaused' = IF started \/ ended THEN FALSE ELSE isPaused

\* page.tsx:982: what ResultsDashboard gets as isValidating; it disables the
\* Validate and the Retry button and shows the progress panel with Cancel
Disabled == isValidating \/ isValidatingGitHub

\* page.tsx:610-615, 632-648: the request for chunk number i (from 0)
ChunkRequest(chunks, i) == Request("/api/validate-github", chunks[i + 1])

\* page.tsx:482-504: the request for the engagement batch that starts at start
RepoBatchRequest(validUsernames, start) ==
    Request("/api/check-repository-engagement", Slice(validUsernames, start, RepoBatchSize))

\* page.tsx:802-806
ValidationFailed(message) == [title |-> "Validation Failed", description |-> message]

\* page.tsx:792-795, the counts of the description left out
ValidationComplete == [title |-> "Validation Complete", description |-> ""]

\* page.tsx:545-548
RepositoryAnalysisComplete == [title |-> "Repository Analysis Complete", description |-> ""]

\* page.tsx:554-558
RepositoryAnalysisFailed ==
    [title |-> "Repository Analysis Failed",
     description |-> "Username validation completed, but repository analysis encountered an error."]

\* page.tsx:625
CancelledByUser == "Validation cancelled by user"

\* The message of the AbortError with which fetch rejects when its signal is
\* aborted; the text is the browser's
AbortErrorMessage == "signal is aborted without reason"

\* page.tsx:623-648: an iteration of the chunk loop for chunk number r.i, up to
\* its fetch.  isPaused is the constant of the closure, so a loop that finds
\* it true sleeps until its signal is aborted
LoopTop(r) ==
    IF r.aborted
    THEN [run |-> IdleRun, sent |-> {}, toast |-> ValidationFailed(CancelledByUser)]
    ELSE IF r.isPaused
    THEN [run |-> [r EXCEPT !.pc = "paused"], sent |-> {}, toast |-> lastToast]
    ELSE [run |-> [r EXCEPT !.pc = "chunk"], sent |-> {ChunkRequest(r.chunks, r.i)},
          toast |-> lastToast]

\* page.tsx:402-456, 610-648: validateSpecificUsernames up to its first request
StartRun(usernames, url, paused) ==
    IF Len(usernames) >= BatchAPIThreshold \/ tokenEntered
    THEN [run |-> [IdleRun EXCEPT !.pc = "batch", !.usernames = usernames, !.repositoryUrl = url,
                                  !.isPaused = paused],
          sent |-> {Request("/api/validate-github-batch", usernames)}]
    ELSE LET top == LoopTop([IdleRun EXCEPT !.usernames = usernames, !.repositoryUrl = url,
                                            !.isPaused = paused,
                                            !.chunks = Chunks(usernames, ChunkSize)])
         IN  [run |-> top.run, sent |-> top.sent]

\* page.tsx:923-944, run by the callback of the render that closure saw
validateWithGitHub(closure) ==
    LET usersToValidate == UsersToValidate(closure.processedUsers)
    IN  IF Len(closure.processedUsers) = 0 \/ Len(usersToValidate) = 0
        THEN [run |-> IdleRun, sent |-> {}]
        ELSE LET started == StartRun(UsernamesOf(usersToValidate), closure.repositoryUrl,
                                     closure.isPaused)
             IN  [started EXCEPT !.run.viaGitHub = TRUE]

\* The Validate button of the dashboard (ResultsDashboard: shown while a
\* record is pending, disabled while validating)
ClickValidate ==
    /\ nPageSteps < MaxPageSteps
    /\ ~Disabled
    /\ run.pc = "idle"
    /\ \E i \in 1..Len(processedUsers) : processedUsers[i].status = "pending"
    /\ LET started == validateWithGitHub(Closure(processedUsers, repositoryUrl, isPaused))
       IN  /\ run' = started.run
           /\ sent' = sent \cup started.sent
    /\ nPageSteps' = nPageSteps + 1
    /\ SetFlags
    /\ UNCHANGED <<otherRun, retryClosure, lastToast, input, tokenEntered, parsedData, selectedColumn,
                   processedUsers, repositoryUrl,
                   captured, timers, lastProcessed, NotPage>>

\* page.tsx:365: the timer set by processUsernames fires
AutoValidate ==
    /\ Len(timers) > 0
    /\ run.pc = "idle"
    /\ LET started == validateWithGitHub(Head(timers))
       IN  /\ run' = started.run
           /\ sent' = sent \cup started.sent
    /\ timers' = Tail(timers)
    /\ SetFlags
    /\ UNCHANGED <<otherRun, retryClosure, lastToast, input, tokenEntered, parsedData, selectedColumn,
                   processedUsers, repositoryUrl,
                   captured, lastProcessed, nPageSteps, NotPage>>

\* page.tsx:458-608: the batch route answers
BatchAnswer(ok, w) ==
    /\ run.pc = "batch"
    /\ LET results == PageResults(run.usernames, w)
           validUsernames == ValidUsernames(results)
       IN  IF ~ok
           THEN /\ run' = IdleRun
                /\ lastToast' = ValidationFailed("Batch validation failed")
                /\ UNCHANGED <<processedUsers, sent, lastProcessed, retryClosure>>
           ELSE IF run.repositoryUrl # "" /\ Len(validUsernames) > 0
           THEN /\ run' = [run EXCEPT !.pc = "repoBatch", !.results = results,
                                      !.validUsernames = validUsernames, !.i = 0]
                /\ sent' = sent \cup {RepoBatchRequest(validUsernames, 0)}
                /\ UNCHANGED <<processedUsers, lastProcessed, retryClosure, lastToast>>
           ELSE /\ processedUsers' = MergeBatch(processedUsers, run.usernames, results, <<>>)
                /\ lastProcessed' = ""
                /\ retryClosure' = RetryClosure(FALSE)
                /\ run' = IdleRun
                /\ UNCHANGED <<sent, lastToast>>
    /\ SetFlags
    /\ UNCHANGED <<otherRun, input, tokenEntered, parsedData, selectedColumn, repositoryUrl, captured, timers,
                   nPageSteps, NotPage>>

RepoAnswers == {"ok", "notOk", "fault"}

\* page.tsx:506-608: the engagement route answers a batch of the batch path
RepoBatchAnswer(answer) ==
    /\ run.pc = "repoBatch"
    /\ LET batch == Slice(run.validUsernames, run.i, RepoBatchSize)
           repoResults == IF answer = "ok" THEN run.repoResults \o batch ELSE run.repoResults
       IN  IF answer # "fault" /\ run.i + RepoBatchSize < Len(run.validUsernames)
           THEN /\ run' = [run EXCEPT !.i = @ + RepoBatchSize, !.repoResults = repoResults]
                /\ sent' = sent \cup {RepoBatchRequest(run.validUsernames, run.i + RepoBatchSize)}
                /\ UNCHANGED <<processedUsers, lastProcessed, retryClosure, lastToast>>
           ELSE /\ processedUsers' =
                       MergeBatch(processedUsers, run.usernames, run.results,
                                  IF answer = "fault" THEN <<>> ELSE repoResults)
                /\ lastProcessed' = ""
                /\ retryClosure' = RetryClosure(FALSE)
                /\ run' = IdleRun
                /\ lastToast' = IF answer = "fault" THEN RepositoryAnalysisFailed
                                ELSE IF Len(repoResults) > 0 THEN RepositoryAnalysisComplete
                                ELSE lastToast
                /\ UNCHANGED sent
    /\ SetFlags
    /\ UNCHANGED <<otherRun, input, tokenEntered, parsedData, selectedColumn, repositoryUrl, captured, timers,
                   nPageSteps, NotPage>>

\* page.tsx:701-704, 717-745: after chunk number run.i, with allResults as they are now
AfterChunk(allResults) ==
    IF run.i < Len(run.chunks) - 1
    THEN LoopTop([run EXCEPT !.i = @ + 1, !.allResults = allResults])
    ELSE IF run.repositoryUrl # "" /\ Len(ValidUsernames(allResults)) > 0
    THEN [run |-> [run EXCEPT !.pc = "repoAll", !.allResults = allResults,
                              !.validUsernames = ValidUsernames(allResults)],
          sent |-> {Request("/api/check-repository-engagement", ValidUsernames(allResults))},
          toast |-> lastToast]
    ELSE [run |-> IdleRun, sent |-> {}, toast |-> ValidationComplete]

ChunkAnswers == {"ok", "429", "fail"}

\* page.tsx:654, in milliseconds; i is the number of the chunk
WaitTime(i) == Min(300000, 30000 * 2 ^ Min(i, 4))

\* page.tsx:650-716: the plain route answers chunk number run.i
ChunkAnswer(answer, w) ==
    /\ run.pc = "chunk"
    /\ LET chunk == run.chunks[run.i + 1]
       IN  IF answer = "429"
           THEN /\ run.waits < MaxWaits
                /\ run' = [run EXCEPT !.pc = "wait", !.waits = @ + 1,
                                      !.waitTime = WaitTime(run.i)]
                /\ UNCHANGED <<processedUsers, sent, lastProcessed, retryClosure, lastToast>>
           ELSE IF answer = "ok"
           THEN LET allResults == run.allResults \o PageResults(chunk, w)
                IN  /\ processedUsers' = MergeChunk(processedUsers, run.usernames, allResults)
                    /\ lastProcessed' = ""
                    /\ retryClosure' = RetryClosure(AfterChunk(allResults).run.pc # "idle" /\ isPaused)
                    /\ run' = AfterChunk(allResults).run
                    /\ sent' = sent \cup AfterChunk(allResults).sent
                    /\ lastToast' = AfterChunk(allResults).toast
           ELSE LET allResults == run.allResults \o ErrorResults(chunk, "Validation failed")
                IN  /\ run' = AfterChunk(allResults).run
                    /\ sent' = sent \cup AfterChunk(allResults).sent
                    /\ lastToast' = AfterChunk(allResults).toast
                    /\ UNCHANGED <<processedUsers, lastProcessed, retryClosure>>
    /\ SetFlags
    /\ UNCHANGED <<otherRun, input, tokenEntered, parsedData, selectedColumn, repositoryUrl, captured, timers,
                   nPageSteps, NotPage>>

\* page.tsx:746-796: the engagement route answers the request of the chunk path
RepoAllAnswer(answer) ==
    /\ run.pc = "repoAll"
    /\ processedUsers' = IF answer = "ok"
                         THEN MergeEngagement(processedUsers, run.validUsernames)
                         ELSE processedUsers
    /\ lastProcessed' = IF answer = "ok" THEN "" ELSE lastProcessed
    /\ retryClosure' = IF answer = "ok" THEN RetryClosure(FALSE) ELSE retryClosure
    /\ run' = IdleRun
    /\ lastToast' = ValidationComplete
    /\ SetFlags
    /\ UNCHANGED <<otherRun, input, tokenEntered, parsedData, selectedColumn, repositoryUrl, captured, timers,
                   sent, nPageSteps, NotPage>>

\* page.tsx:661-663, 623-648: the wait after a 429 is over
WaitOver ==
    /\ run.pc = "wait"
    /\ run' = LoopTop(run).run
    /\ sent' = sent \cup LoopTop(run).sent
    /\ lastToast' = LoopTop(run).toast
    /\ SetFlags
    /\ UNCHANGED <<otherRun, retryClosure, input, tokenEntered, parsedData, selectedColumn,
                   processedUsers, repositoryUrl, captured, timers, lastProcessed, nPageSteps,
                   NotPage>>

NextPage ==
    \/ handleFileUpload
    \/ \E column \in 1..2 : setSelectedColumn(column)
    \/ \E url \in RepositoryUrls : setRepositoryUrl(url)
    \/ processUsernames
    \/ processManualInput
    \/ ClickValidate
    \/ AutoValidate
    \/ \E ok \in BOOLEAN, w \in Worlds : BatchAnswer(ok, w)
    \/ \E answer \in RepoAnswers : RepoBatchAnswer(answer)
    \/ \E answer \in ChunkAnswers, w \in Worlds : ChunkAnswer(answer, w)
    \/ WaitOver
    \/ \E answer \in RepoAnswers : RepoAllAnswer(answer)

SpecPage == InitPage /\ [][NextPage]_vars

(***************************************************************************)
(* Retry, cancellation and validation runs that overlap.  Nothing stops    *)
(* the timer of processUsernames from starting a run while another one is  *)
(* under way; the model follows one of the two runs and SwitchRun turns to *)
(* the other one.                                                          *)
(***************************************************************************)
\* The messages of the page's records that contain "Rate limit exceeded"
RateLimitExceededErrors == {"Rate limit exceeded - please wait"}

\* page.tsx:371, part_005:68
Retryable(user) ==
    /\ user.status = "error"
    /\ Len(user.username) > 0
    /\ user.error \in RateLimitExceededErrors

\* page.tsx:392-394 with a reset of every record in error, whatever its message
ResetEveryError(prev, failedUsers) ==
    [i \in 1..Len(prev) |->
        IF prev[i].status = "error"
        THEN [prev[i] EXCEPT !.status = "pending", !.error = Undefined]
        ELSE prev[i]]

\* page.tsx:390-396
ResetFailed(prev, failedUsers) ==
    [i \in 1..Len(prev) |->
        IF \E k \in 1..Len(failedUsers) : failedUsers[k].username = prev[i].username
        THEN [prev[i] EXCEPT !.status = "pending", !.error = Undefined]
        ELSE prev[i]]

\* page.tsx:369-400: the Retry button of the dashboard (ResultsDashboard:
\* shown while a record can be retried, disabled while validating)
retryFailedUsernames ==
    /\ nPageSteps < MaxPageSteps
    /\ ~Disabled
    /\ run.pc = "idle"
    /\ LET failedUsers == SelectSeq(processedUsers, Retryable)
           started == StartRun(UsernamesOf(failedUsers), retryClosure.repositoryUrl,
                               retryClosure.isPaused)
       IN  /\ Len(failedUsers) > 0
           /\ processedUsers' = ResetFailed(processedUsers, failedUsers)
           /\ run' = started.run
           /\ sent' = sent \cup started.sent
    /\ lastProcessed' = ""
    /\ retryClosure' = RetryClosure(FALSE)
    /\ nPageSteps' = nPageSteps + 1
    /\ SetFlags
    /\ UNCHANGED <<otherRun, lastToast, input, tokenEntered, parsedData, selectedColumn,
                   repositoryUrl, captured, timers, NotPage>>

\* page.tsx:819-825: the Pause button of the progress panel
pauseValidation ==
    /\ nPageSteps < MaxPageSteps
    /\ Disabled
    /\ ~isPaused
    /\ isPaused' = TRUE
    /\ nPageSteps' = nPageSteps + 1
    /\ UNCHANGED <<isValidating, isValidatingGitHub, validationController, cancelled, lastToast,
                   run, otherRun, retryClosure, input, tokenEntered, parsedData, selectedColumn,
                   processedUsers, repositoryUrl, captured, timers, sent, lastProcessed, NotPage>>

\* page.tsx:827-833: the Resume button of the progress panel
resumeValidation ==
    /\ nPageSteps < MaxPageSteps
    /\ Disabled
    /\ isPaused
    /\ isPaused' = FALSE
    /\ nPageSteps' = nPageSteps + 1
    /\ UNCHANGED <<isValidating, isValidatingGitHub, validationController, cancelled, lastToast,
                   run, otherRun, retryClosure, input, tokenEntered, parsedData, selectedColumn,
                   processedUsers, repositoryUrl, captured, timers, sent, lastProcessed, NotPage>>

\* What the abort of its signal does to the run the model follows.  The fetch
\* the run is waiting for rejects with an AbortError: that of the validation
\* request and of a chunk ends the run in the outer catch (page.tsx:706-708,
\* 800-806), that of an engagement request is caught where it is made
\* (page.tsx:552-608, 780-796).  A run asleep at the pause gate leaves the
\* gate and its fetch rejects at once (page.tsx:627-648).  The timer of a run
\* that waits after a 429 is not connected to the signal: the run goes on
\* waiting (page.tsx:661)
Abort(r) ==
    IF r.pc \in {"batch", "chunk", "paused"}
    THEN [run |-> IdleRun, toast |-> ValidationFailed(AbortErrorMessage)]
    ELSE IF r.pc = "wait"
    THEN [run |-> [r EXCEPT !.aborted = TRUE], toast |-> lastToast]
    ELSE IF r.pc = "repoBatch"
    THEN [run |-> IdleRun, toast |-> RepositoryAnalysisFailed]
    ELSE IF r.pc = "repoAll"
    THEN [run |-> IdleRun, toast |-> ValidationComplete]
    ELSE [run |-> r, toast |-> lastToast]

\* page.tsx:835-845: the Cancel button of the progress panel.  A cancelled
\* batch run that was asking for engagement data merges its validation
\* results without them (page.tsx:552-608)
cancelValidation ==
    /\ nPageSteps < MaxPageSteps
    /\ Disabled
    /\ validationController # "other"
    /\ IF validationController = "run" /\ run.pc = "repoBatch"
       THEN /\ processedUsers' = MergeBatch(processedUsers, run.usernames, run.results, <<>>)
            /\ lastProcessed' = ""
            /\ retryClosure' = RetryClosure(FALSE)
       ELSE UNCHANGED <<processedUsers, lastProcessed, retryClosure>>
    /\ run' = IF validationController = "run" THEN Abort(run).run ELSE run
    /\ lastToast' = IF validationController = "run" THEN Abort(run).toast ELSE lastToast
    /\ isValidating' = FALSE
    /\ validationController' = "none"
    /\ isValidatingGitHub' =
           IF validationController = "run" /\ run.viaGitHub /\ run'.pc = "idle" THEN FALSE
           ELSE isValidatingGitHub
    /\ cancelled' = TRUE
    /\ isPaused' = FALSE
    /\ nPageSteps' = nPageSteps + 1
    /\ UNCHANGED <<otherRun, input, tokenEntered, parsedData, selectedColumn, repositoryUrl,
                   captured, timers, sent, NotPage>>

\* The model turns to the other run
SwitchRun ==
    /\ run # otherRun
    /\ run' = otherRun
    /\ otherRun' = run
    /\ validationController' =
           IF validationController = "run" THEN "other"
           ELSE IF validationController = "other" THEN "run"
           ELSE "none"
    /\ UNCHANGED <<isValidating, isValidatingGitHub, cancelled, isPaused, lastToast, retryClosure,
                   input, tokenEntered, parsedData, selectedColumn, processedUsers, repositoryUrl,
                   captured, timers, sent, lastProcessed, nPageSteps, NotPage>>

\* Inputs with two handles of valid format, with one, and with a duplicate
RunInputs == {<<octocat, <<"a", "b">>>>, <<octocat>>, <<octocat, OCTOCAT>>}

\* The page after the first column of the file was processed twice, the
\* repository URL being edited in between: the timer of the second
\* processing has not fired yet
InitRuns ==
    /\ now = 0
    /\ nTicks = 0
    /\ rateLimitMap = <<>>
    /\ BatchIdle
    /\ LimiterIdle
    /\ EngagementIdle
    /\ PlainIdle
    /\ CallIdle
    /\ input \in RunInputs
    /\ tokenEntered \in BOOLEAN
    /\ parsedData = File(input)
    /\ selectedColumn = 1
    /\ processedUsers = ProcessColumn(input).users
    /\ repositoryUrl \in RepositoryUrls
    /\ captured = Closure(processedUsers, repositoryUrl, FALSE)
    /\ timers = IF ProcessColumn(input).validUsernameCount > 0 THEN <<captured>> ELSE <<>>
    /\ run = IdleRun
    /\ otherRun = IdleRun
    /\ isValidating = FALSE
    /\ isValidatingGitHub = FALSE
    /\ validationController = "none"
    /\ cancelled = FALSE
    /\ retryClosure = [repositoryUrl |-> repositoryUrl, isPaused |-> FALSE]
    /\ isPaused = FALSE
    /\ lastToast = NoToast
    /\ sent = {}
    /\ lastProcessed = "column"
    /\ nPageSteps = 0

\* The user processes the column again, edits the repository URL, validates,
\* retries and cancels
NextRuns ==
    \/ \E url \in RepositoryUrls : setRepositoryUrl(url)
    \/ processUsernames
    \/ ClickValidate
    \/ AutoValidate
    \/ \E ok \in BOOLEAN, w \in Worlds : BatchAnswer(ok, w)
    \/ \E answer \in RepoAnswers : RepoBatchAnswer(answer)
    \/ \E answer \in ChunkAnswers, w \in Worlds : ChunkAnswer(answer, w)
    \/ WaitOver
    \/ \E answer \in RepoAnswers : RepoAllAnswer(answer)
    \/ retryFailedUsernames
    \/ cancelValidation
    \/ SwitchRun

SpecRuns == InitRuns /\ [][NextRuns]_vars

(***************************************************************************)
(* The buttons of the progress panel: pause, resume and cancel, with one   *)
(* validation run under way at a time.                                     *)
(***************************************************************************)
\* The user validates, pauses, resumes, cancels, retries and processes the
\* column again
NextControl ==
    \/ processUsernames
    \/ ClickValidate
    \/ AutoValidate
    \/ \E ok \in BOOLEAN, w \in Worlds : BatchAnswer(ok, w)
    \/ \E answer \in RepoAnswers : RepoBatchAnswer(answer)
    \/ \E answer \in ChunkAnswers, w \in Worlds : ChunkAnswer(answer, w)
    \/ WaitOver
    \/ \E answer \in RepoAnswers : RepoAllAnswer(answer)
    \/ retryFailedUsernames
    \/ pauseValidation
    \/ resumeValidation
    \/ cancelValidation

SpecControl == InitRuns /\ [][NextControl]_vars

(***************************************************************************)
(* Properties of the page, checked under SpecPage *)
(***************************************************************************)
StatusesOf(users) == [i \in 1..Len(users) |-> users[i].status]

OriginalValuesOf(users) == [i \in 1..Len(users) |-> users[i].originalValue]

\* Records i and j carry handles that are equal up to the case of their letters
SameHandle(users, i, j) ==
    /\ Len(users[i].username) > 0
    /\ Len(users[j].username) > 0
    /\ toLowerCase(users[i].username) = toLowerCase(users[j].username)

RepeatedAreDuplicate(users) ==
    \A i, j \in 1..Len(users) :
        i # j /\ SameHandle(users, i, j) => users[i].status = "duplicate"

\* C6: after a processing, from the file column or from the manual input,
\* every record whose lower-cased handle occurs more than once has status
\* duplicate, the first occurrence included.
C6_RepeatedHandlesFlagged ==
    lastProcessed # "" => RepeatedAreDuplicate(processedUsers)

\* A file column was processed in which a handle comes back in another case,
\* and its first occurrence is flagged
C6_Witness ==
    /\ lastProcessed = "column"
    /\ \E i, j \in 1..Len(processedUsers) :
          /\ i < j
          /\ SameHandle(processedUsers, i, j)
          /\ processedUsers[i].username # processedUsers[j].username
          /\ processedUsers[i].status = "duplicate"
          /\ processedUsers[j].status = "duplicate"

\* processedUsers is what the processing of OctocatInput left
ProcessedOctocatInput ==
    /\ lastProcessed # ""
    /\ OriginalValuesOf(processedUsers) = OctocatInput

\* C7 as stated: once ["octocat", "OCTOCAT", <handle longer than 39>] is
\* processed, record 1 is pending (to become valid later), record 2 is
\* duplicate and record 3 is invalid.
C7_Original ==
    ProcessedOctocatInput =>
        /\ processedUsers[1].status = "pending"
        /\ processedUsers[2].status = "duplicate"
        /\ processedUsers[3].status = "invalid"

\* C7: once ["octocat", "OCTOCAT", <handle longer than 39>] is processed,
\* records 1 and 2 are both duplicate (the first occurrence is flagged when
\* record 2 is found), record 3 is invalid, and no record of the list is
\* left to submit: validateWithGitHub on this list selects nothing.
C7_FirstOccurrenceFlagged ==
    ProcessedOctocatInput =>
        /\ StatusesOf(processedUsers) = <<"duplicate", "duplicate", "invalid">>
        /\ Len(UsersToValidate(processedUsers)) = 0

\* OctocatInput was processed as a file column, the timer of the processing
\* has fired and the validation found nothing to submit
C7_Witness ==
    /\ lastProcessed = "column"
    /\ OriginalValuesOf(processedUsers) = OctocatInput
    /\ StatusesOf(processedUsers) = <<"duplicate", "duplicate", "invalid">>
    /\ Len(timers) = 0
    /\ run.pc = "idle"
    /\ sent = {}

\* The handle of an input value: what the extraction hands to the format check
HandleOf(originalValue) == DirectHandle(trim(originalValue))

\* Length 0, length above 39, a character outside [A-Za-z0-9-], or a hyphen first or last
IllFormed(handle) ==
    \/ Len(handle) = 0
    \/ Len(handle) > MaxHandleLen
    \/ \E i \in 1..Len(handle) : handle[i] \notin Alnum \cup {"-"}
    \/ handle[1] = "-"
    \/ handle[Len(handle)] = "-"

GithubCom == <<"g", "i", "t", "h", "u", "b", ".", "c", "o", "m", "/">>

DotGit == <<".", "g", "i", "t">>

\* The last position of the longest run of [^/] that starts at position start
RunEnd(url, start) ==
    Least({j \in start..(Len(url) + 1) : j = Len(url) + 1 \/ url[j] = "/"}) - 1

\* The pattern of route.ts:36 matches with its literal part at position p
MatchesAt(url, p) ==
    /\ p + Len(GithubCom) - 1 <= Len(url)
    /\ SubSeq(url, p, p + Len(GithubCom) - 1) = GithubCom
    /\ LET ownerStart == p + Len(GithubCom)
           ownerEnd == RunEnd(url, ownerStart)
       IN  /\ ownerEnd >= ownerStart
           /\ ownerEnd < Len(url)
           /\ RunEnd(url, ownerEnd + 2) >= ownerEnd + 2

\* String.prototype.match for the pattern of route.ts:36: groups 1 and 2 of the leftmost match
Match(url) ==
    LET starts == {p \in 1..Len(url) : MatchesAt(url, p)}
    IN  IF starts = {} THEN Null
        ELSE LET ownerStart == Least(starts) + Len(GithubCom)
                 ownerEnd == RunEnd(url, ownerStart)
             IN  [g1 |-> SubSeq(url, ownerStart, ownerEnd),
                  g2 |-> SubSeq(url, ownerEnd + 2, RunEnd(url, ownerEnd + 2))]

\* route.ts:40  replace(/\.git$/, "")
RemoveDotGit(s) ==
    IF Len(s) >= Len(DotGit) /\ SubSeq(s, Len(s) - Len(DotGit) + 1, Len(s)) = DotGit
    THEN SubSeq(s, 1, Len(s) - Len(DotGit))
    ELSE s

\* route.ts:33-42
parseRepositoryUrl(url) ==
    IF Match(url) = Null THEN Null
    ELSE [owner |-> Match(url).g1, repo |-> RemoveDotGit(Match(url).g2)]

(***************************************************************************)
(* Requests to the engagement route.  A URL is an optional scheme and up    *)
(* to MaxUrlParts parts.                                                    *)
(***************************************************************************)
Schemes == {<<>>, <<"h", "t", "t", "p", "s", ":", "/", "/">>}

UrlParts ==
    {GithubCom, <<"v", "e", "r", "c", "e", "l">>, <<"/">>,
     <<"n", "e", "x", "t", ".", "j", "s">>, DotGit}

RECURSIVE Concat(_)
Concat(parts) == IF Len(parts) = 0 THEN <<>> ELSE Head(parts) \o Concat(Tail(parts))

Urls == {scheme \o Concat(parts) : scheme \in Schemes, parts \in SeqsUpTo(UrlParts, MaxUrlParts)}

EngagementBodies ==
    {[isArray |-> TRUE, usernames |-> <<>>],
     [isArray |-> TRUE, usernames |-> <<octocat>>],
     [isArray |-> FALSE, usernames |-> <<>>]}

\* A request has arrived at the route
InitEngagement ==
    /\ now = 0
    /\ nTicks = 0
    /\ rateLimitMap = <<>>
    /\ BatchIdle
    /\ LimiterIdle
    /\ PageIdle
    /\ PlainIdle
    /\ CallIdle
    /\ engResponse = NoResponse
    /\ \E url \in Urls, body \in EngagementBodies :
          engReq = [pc |-> "received", repositoryUrl |-> url, isArray |-> body.isArray,
                    usernames |-> body.usernames, parsed |-> Null]

\* route.ts:252-271: the route handles the request up to the parsing of its URL
PostEngagement ==
    /\ engReq.pc = "received"
    /\ IF Len(engReq.repositoryUrl) = 0 \/ ~engReq.isArray \/ Len(engReq.usernames) = 0
       THEN /\ engResponse' = [status |-> 400]
            /\ engReq' = [engReq EXCEPT !.pc = "rejected"]
       ELSE IF parseRepositoryUrl(engReq.repositoryUrl) = Null
       THEN /\ engResponse' = [status |-> 400]
            /\ engReq' = [engReq EXCEPT !.pc = "rejected"]
       ELSE /\ engResponse' = NoResponse
            /\ engReq' = [engReq EXCEPT !.pc = "checking",
                                        !.parsed = parseRepositoryUrl(engReq.repositoryUrl)]
    /\ UNCHANGED <<now, nTicks, rateLimitMap, batchVars, limiterVars, pageVars, plainVars, callVars>>

NextEngagement == PostEngagement

SpecEngagement == InitEngagement /\ [][NextEngagement]_vars

(***************************************************************************)
(* Properties of the engagement route, checked under SpecEngagement *)
(***************************************************************************)
Handled == engReq.pc \in {"rejected", "checking"}

NextJsUrl == <<"h", "t", "t", "p", "s", ":", "/", "/">> \o GithubCom
                 \o <<"v", "e", "r", "c", "e", "l", "/", "n", "e", "x", "t", ".", "j", "s">>

\* C10: https://github.com/vercel/next.js, with or without a trailing .git,
\* parses to owner vercel and repo next.js; a request the route goes on to
\* serve has a parsed owner and a parsed repo that are both non-empty, every
\* other request being rejected with status 400.
C10_RepositoryRefNonEmpty ==
    Handled =>
        /\ parseRepositoryUrl(NextJsUrl).repo = <<"n", "e", "x", "t", ".", "j", "s">>
        /\ parseRepositoryUrl(NextJsUrl \o DotGit) = parseRepositoryUrl(NextJsUrl)
        /\ engReq.pc = "rejected" => engResponse.status = 400
        /\ engReq.pc = "checking" =>
              /\ Len(engReq.parsed.owner) > 0
              /\ Len(engReq.parsed.repo) > 0

(***************************************************************************)
(* The single-resource validator as a function of the remote's answer:     *)
(* validateGitHubUsername of the plain route and the per-username callback *)
(* of validateUsernamesREST of the batch route, each called once with a    *)
(* username and answered by the remote in one of the ways of Answers.      *)
(***************************************************************************)
ValidatorPaths == {"validateGitHubUsername", "validateUsernamesREST"}

ValidatorUsernames == {1, 2}

ValidatorCall(fn, username, answer) ==
    [fn |-> fn, pc |-> "called", username |-> username, answer |-> answer, result |-> Null]

\* The chunks validateUsernamesGraphQL is called with: up to MaxAliases usernames
GraphQLChunks ==
    UNION {[1..n -> ValidatorUsernames] : n \in 1..MaxAliases}

GraphQLErrors ==
    {GraphQLError(type, alias) :
        type \in {"NOT_FOUND", "FORBIDDEN"}, alias \in -1..(MaxAliases - 1)}

\* What the remote can answer to the query of a chunk
GraphQLAnswers ==
    {[hasData |-> hasData, data |-> data, errors |-> errors] :
        hasData \in BOOLEAN,
        data \in UNION {[1..n -> {NoUserData, UserData("profileA")}] : n \in 0..MaxAliases},
        errors \in {e \in SUBSET GraphQLErrors : Cardinality(e) <= MaxErrors}}

\* The query of the chunk was answered (response.ok and a body that parses)
NoFailure == [kind |-> "none", status |-> 200, message |-> ""]

\* route.ts:86-98: the ways in which the query of a chunk is not answered: a
\* response that is not ok, a fetch that rejects, a body that does not parse
GraphQLFailures ==
    {[kind |-> "notOk", status |-> status, message |-> ""] : status \in {401, 403, 502}}
        \cup {[kind |-> "fault", status |-> 0, message |-> "fetch failed"],
              [kind |-> "badJson", status |-> 200, message |-> "Unexpected token < in JSON"]}

\* validateUsernamesGraphQL with a catch block that reports the chunk instead
\* of rethrowing
GraphQLFailureSwallowed(usernames, failure) ==
    [pc |-> "returned",
     result |-> [i \in 1..Len(usernames) |-> ErrorResult(usernames[i], "GraphQL request failed")],
     error |-> ""]

\* route.ts:94-98, 149-152: validateUsernamesGraphQL for a query that is not
\* answered: the error of line 96, or the one of fetch or of response.json(),
\* is thrown again by the catch block
GraphQLFailure(usernames, failure) ==
    [pc |-> "thrown",
     result |-> <<>>,
     error |-> IF failure.kind = "notOk"
               THEN "GraphQL request failed: " \o ToString(failure.status)
               ELSE failure.message]

GraphQLCall(usernames, answer) ==
    [fn |-> "validateUsernamesGraphQL", pc |-> "called", usernames |-> usernames,
     answer |-> answer, result |-> <<>>, failure |-> NoFailure, error |-> ""]

\* A call whose query is not answered
GraphQLFailedCall(usernames, failure) ==
    [GraphQLCall(usernames, [hasData |-> FALSE, data |-> <<>>, errors |-> {}])
        EXCEPT !.failure = failure]

InitValidate ==
    /\ now = 0
    /\ nTicks = 0
    /\ rateLimitMap = <<>>
    /\ BatchIdle
    /\ LimiterIdle
    /\ PageIdle
    /\ EngagementIdle
    /\ PlainIdle
    /\ call \in {ValidatorCall(fn, username, answer) :
                    fn \in ValidatorPaths, username \in ValidatorUsernames, answer \in Answers}
                \cup {GraphQLCall(usernames, answer) :
                        usernames \in GraphQLChunks, answer \in GraphQLAnswers}
                \cup {GraphQLFailedCall(usernames, failure) :
                        usernames \in GraphQLChunks, failure \in GraphQLFailures}

NotCall ==
    <<now, nTicks, rateLimitMap, batchVars, limiterVars, pageVars, engagementVars, plainVars>>

\* part_000:141: the plain route awaits validateGitHubUsername
ReturnPlain ==
    /\ call.fn = "validateGitHubUsername"
    /\ call.pc = "called"
    /\ call' = [call EXCEPT !.pc = "returned",
                            !.result = validateGitHubUsername(call.username, call.answer)]
    /\ UNCHANGED NotCall

\* route.ts:224: the promise of one username of a wave settles
ReturnREST ==
    /\ call.fn = "validateUsernamesREST"
    /\ call.pc = "called"
    /\ call' = [call EXCEPT !.pc = "returned",
                            !.result = validateUsernameREST(call.username, call.answer)]
    /\ UNCHANGED NotCall

\* route.ts:100-148: validateUsernamesGraphQL returns for an answered query
ReturnGraphQL ==
    /\ call.fn = "validateUsernamesGraphQL"
    /\ call.pc = "called"
    /\ call.failure = NoFailure
    /\ call' = [call EXCEPT !.pc = "returned",
                            !.result = GraphQLResults(call.usernames, call.answer)]
    /\ UNCHANGED NotCall

\* route.ts:86-98, 149-152: validateUsernamesGraphQL ends for a query that is
\* not answered
ThrowGraphQL ==
    /\ call.fn = "validateUsernamesGraphQL"
    /\ call.pc = "called"
    /\ call.failure # NoFailure
    /\ LET outcome == GraphQLFailure(call.usernames, call.failure)
       IN  call' = [call EXCEPT !.pc = outcome.pc, !.result = outcome.result,
                                !.error = outcome.error]
    /\ UNCHANGED NotCall

NextValidate == ReturnPlain \/ ReturnREST \/ ReturnGraphQL \/ ThrowGraphQL

SpecValidate == InitValidate /\ [][NextValidate]_vars

----------------------------------------------------------------------------
(* Properties of the single-resource validator, checked under SpecValidate *)

Returned == call.fn \in ValidatorPaths /\ call.pc = "returned"

\* The remote answered with a response whose body, where it is read, parses
Answered(status) == call.answer.fault = "none" /\ call.answer.status = status

Parsed == call.answer.json = "object"

IsResult(result, username) ==
    /\ result.username = username
    /\ result.status \in Terminal
    /\ (result.profileData # Undefined) <=> (result.status = "valid")

IsError(result, message) == result.status = "error" /\ result.error = message

CarriesStatus(result, answer) ==
    IsError(result, HttpMessage(answer.status, answer.statusText))

\* C11 as stated: every call returns one result, 200 gives valid with the
\* parsed profile, 404 gives deleted, every other non-2xx status gives an
\* error that carries the numeric status, a transport fault gives an error
\* with the fault's message, and profile is present iff the status is valid.
C11_Original ==
    Returned =>
        /\ IsResult(call.result, call.username)
        /\ Answered(200) /\ Parsed =>
              call.result.status = "valid" /\ call.result.profileData = call.answer.profile
        /\ Answered(404) => call.result.status = "deleted"
        /\ /\ call.answer.fault = "none"
           /\ call.answer.status \notin {200, 404}
           /\ call.answer.status \notin 200..299
           => CarriesStatus(call.result, call.answer)
        /\ call.answer.fault = "Error" => IsError(call.result, call.answer.faultMessage)

\* C11: every call returns exactly one result for its username, and profile
\* is present iff the status is valid; 200 with a body that parses gives
\* valid with the parsed profile, 404 gives deleted, 403 gives an error with
\* a fixed message that does not carry the status, every status other than
\* 200, 404 and 403 (a 2xx other than 200 included) gives an error carrying
\* "HTTP <status>", and a fault of the transport or of the parsing of the
\* body gives an error with the fault's message.
C11_ValidatorTotal ==
    Returned =>
        /\ IsResult(call.result, call.username)
        /\ Answered(200) /\ Parsed =>
              call.result.status = "valid" /\ call.result.profileData = call.answer.profile
        /\ Answered(200) /\ ~Parsed =>
              IsError(call.result, JsonSyntaxError) \/ IsError(call.result, NullTypeError)
        /\ Answered(404) => call.result.status = "deleted"
        /\ Answered(403) =>
              /\ call.result.status = "error"
              /\ ~CarriesStatus(call.result, call.answer)
        /\ call.answer.fault = "none" /\ call.answer.status \notin {200, 404, 403} =>
              CarriesStatus(call.result, call.answer)
        /\ call.answer.fault = "Error" => IsError(call.result, call.answer.faultMessage)
        /\ call.answer.fault = "thrown" => IsError(call.result, "Unknown error")

\* The plain route's validator has returned deleted for a 404
C11_Witness ==
    /\ Returned
    /\ call.fn = "validateGitHubUsername"
    /\ Answered(404)
    /\ call.result.status = "deleted"
    /\ call.result.profileData = Undefined

\* C12: on both single-resource paths, a 403 whose message indicates rate
\* limiting gives the error "Rate limit exceeded - please wait", and a 403
\* whose message does not gives the "Access forbidden" error.
C12_ForbiddenToldApart ==
    Returned /\ Answered(403) /\ Parsed =>
        IF includes(call.answer.message, RateLimitText)
        THEN IsError(call.result, "Rate limit exceeded - please wait")
        ELSE IsError(call.result, "Access forbidden - may be private or suspended account")

----------------------------------------------------------------------------
(* Properties of validateUsernamesGraphQL, checked under SpecValidate *)

ReturnedGraphQL == call.fn = "validateUsernamesGraphQL" /\ call.pc = "returned"

\* The remote's answer has data for the alias user<index>
DataPresent(answer, index) ==
    /\ answer.hasData
    /\ index + 1 \in DOMAIN answer.data
    /\ answer.data[index + 1].present

\* The remote's answer has a NOT_FOUND error whose path is the alias user<index>
NotFoundFor(answer, index) ==
    GraphQLError("NOT_FOUND", index) \in answer.errors

\* C13: for an answered chunk validateUsernamesGraphQL returns one result per
\* handle in input order; for the alias of each handle, data present gives
\* valid, data absent with a NOT_FOUND error whose path is the alias gives
\* deleted, and data absent without such an error gives error.
C13_PerAliasMapping ==
    ReturnedGraphQL =>
        /\ Len(call.result) = Len(call.usernames)
        /\ \A i \in 1..Len(call.usernames) :
              /\ call.result[i].username = call.usernames[i]
              /\ call.result[i].status =
                    IF DataPresent(call.answer, i - 1) THEN "valid"
                    ELSE IF NotFoundFor(call.answer, i - 1) THEN "deleted"
                    ELSE "error"

\* A chunk of two handles, the first with data, the second without data and
\* with a NOT_FOUND error on the first alias only: valid and error
C13_Witness ==
    /\ ReturnedGraphQL
    /\ Len(call.usernames) = 2
    /\ DataPresent(call.answer, 0)
    /\ ~DataPresent(call.answer, 1)
    /\ NotFoundFor(call.answer, 0)
    /\ ~NotFoundFor(call.answer, 1)
    /\ call.result[1].status = "valid"
    /\ call.result[2].status = "error"

(***************************************************************************)
(* The two validation routes side by side: the batch route as above and    *)
(* the plain route (validate-github/route.ts, src/unnamed/part_000).  Each *)
(* route module has a rateLimitMap of its own.  The routes are exercised   *)
(* with callers at every position of their windows: a caller with no       *)
(* window or one request short of the ceiling, and a caller whose window   *)
(* is used up.                                                             *)
(***************************************************************************)

\* The test of part_000:135 with the ceiling itself taken for too many
TooManyFromCeiling(usernames) == Len(usernames) >= PlainMaxUsernames

\* part_000:135
TooMany(usernames) == Len(usernames) > PlainMaxUsernames

\* part_000:145-151
RespondPlain(r) ==
    [status |-> 200, results |-> r.results,
     rateLimit |-> [remaining |-> r.rateLimit.remaining - Len(r.usernames),
                    resetTime |-> r.rateLimit.resetTime]]

\* part_000:112-139: POST up to its first remote call
PostPlain(ip, isArray, usernames, githubToken) ==
    /\ plainReq.pc \in {"idle", "done"}
    /\ nPlainRequests' = nPlainRequests + 1
    /\ UNCHANGED <<now, nTicks, rateLimitMap, batchVars, lastCheck, allowedAt, nChecks, pageVars,
                   engagementVars, callVars>>
    /\ LET rl == checkRateLimitPlain(plainRateLimitMap, ip, now)
           r0 == [IdlePlainReq EXCEPT
                    !.ip = ip, !.usernames = usernames, !.githubToken = githubToken,
                    !.rateLimit = [allowed |-> rl.allowed, remaining |-> rl.remaining,
                                   resetTime |-> rl.resetTime]]
       IN
       /\ plainRateLimitMap' = rl.map
       /\ IF ~rl.allowed
          THEN /\ plainReq' = [r0 EXCEPT !.pc = "done"]
               /\ plainResponse' =
                     [status |-> 429, error |-> "Rate limit exceeded. Please try again later.",
                      resetTime |-> rl.resetTime, remaining |-> rl.remaining]
          ELSE IF ~isArray \/ Len(usernames) = 0
          THEN /\ plainReq' = [r0 EXCEPT !.pc = "done"]
               /\ plainResponse' =
                     [status |-> 400, error |-> "Invalid request: usernames array is required"]
          ELSE IF TooMany(usernames)
          THEN /\ plainReq' = [r0 EXCEPT !.pc = "done"]
               /\ plainResponse' =
                     [status |-> 400, error |-> "Too many usernames. Maximum 20 per request."]
          ELSE /\ plainReq' = [r0 EXCEPT !.pc = "validating"]
               /\ plainResponse' = NoResponse

\* part_000:140-151: one turn of the loop, and the response after the last
ValidatePlain(w) ==
    /\ plainReq.pc = "validating"
    /\ Len(plainReq.calls) = 0 \/ w = plainReq.world
    /\ UNCHANGED <<now, nTicks, rateLimitMap, batchVars, limiterVars, pageVars, engagementVars,
                   nPlainRequests, callVars>>
    /\ LET username == plainReq.usernames[Len(plainReq.results) + 1]
           result == validateGitHubUsername(username, AnswerOf(RemoteKind(w, username)))
           r1 == [plainReq EXCEPT !.results = Append(@, result), !.world = w,
                                  !.calls = Append(@, username)]
       IN  IF Len(r1.results) = Len(plainReq.usernames)
           THEN /\ plainReq' = [r1 EXCEPT !.pc = "done"]
                /\ plainResponse' = RespondPlain(r1)
           ELSE /\ plainReq' = r1
                /\ UNCHANGED plainResponse

\* The callers: one whose window is absent or one request short of the
\* ceiling, one whose window is used up
OpenIP == "10.0.0.1"

ExhaustedIP == "10.0.0.2"

Window(count) == [count |-> count, resetTime |-> HOUR]

BatchWindows ==
    {ExhaustedIP :> Window(TokenLimit),
     (OpenIP :> Window(AnonLimit - 1)) @@ (ExhaustedIP :> Window(TokenLimit))}

PlainWindows ==
    {ExhaustedIP :> Window(PlainLimit),
     (OpenIP :> Window(PlainLimit - 1)) @@ (ExhaustedIP :> Window(PlainLimit))}

\* The lists at the ends of what a route accepts; the batch route is sent a
\* list of the full MaxUsernames only by the caller whose window is used up
BatchRouteLists(ip) ==
    {<<>>, <<1>>, <<1, 2>>, Range(MaxUsernames + 1)}
        \cup (IF ip = ExhaustedIP THEN {Range(MaxUsernames)} ELSE {})

PlainRouteLists == {<<>>, <<1>>, Range(PlainMaxUsernames), Range(PlainMaxUsernames + 1)}

RouteBodies(lists) ==
    {[isArray |-> TRUE, usernames |-> l] : l \in lists} \cup {[isArray |-> FALSE, usernames |-> <<>>]}

InitRoutes ==
    /\ now = 0
    /\ nTicks = 0
    /\ rateLimitMap \in BatchWindows
    /\ BatchIdle
    /\ plainRateLimitMap \in PlainWindows
    /\ lastCheck = NoCheck
    /\ allowedAt = <<>>
    /\ nChecks = 0
    /\ PageIdle
    /\ EngagementIdle
    /\ plainReq = IdlePlainReq
    /\ plainResponse = NoResponse
    /\ nPlainRequests = 0
    /\ CallIdle

NextRoutes ==
    \/ /\ nRequests + nPlainRequests < MaxRouteRequests
       /\ \E ip \in {OpenIP, ExhaustedIP}, githubToken \in BOOLEAN, method \in Methods :
             \E body \in RouteBodies(BatchRouteLists(ip)) :
                PostReceive(ip, body.isArray, body.usernames, githubToken, method)
    \/ \E ok \in BOOLEAN, w \in Worlds : GraphQLBatch(ok, w)
    \/ \E order \in CompletionOrders, w \in Worlds, quota \in Quotas :
          RESTWave(order, w, quota)
    \/ /\ nRequests + nPlainRequests < MaxRouteRequests
       /\ \E ip \in {OpenIP, ExhaustedIP}, githubToken \in BOOLEAN :
             \E body \in RouteBodies(PlainRouteLists) :
                PostPlain(ip, body.isArray, body.usernames, githubToken)
    \/ \E w \in Worlds : ValidatePlain(w)

SpecRoutes == InitRoutes /\ [][NextRoutes]_vars

----------------------------------------------------------------------------
(* Properties of the two validation routes, checked under SpecRoutes *)

\* A step in which the batch route, the plain route receives a request
BatchReceives == nRequests' = nRequests + 1

PlainReceives == nPlainRequests' = nPlainRequests + 1

\* route.ts:257-263, part_000:131-137: the list is missing, empty or too long
\* (a list that is missing is received as <<>>)
BadList(usernames, ceiling) == Len(usernames) = 0 \/ Len(usernames) > ceiling

\* The batch route consults its limiter for the request it receives in this
\* step (route.ts:265 comes after the tests of the list), and is denied
BatchDenied ==
    /\ BatchReceives
    /\ ~BadList(req'.usernames, MaxUsernames)
    /\ ~checkRateLimit(rateLimitMap, req'.ip, req'.githubToken, now).allowed

\* The plain route consults its limiter first (part_000:115), and is denied
PlainDenied ==
    /\ PlainReceives
    /\ ~checkRateLimitPlain(plainRateLimitMap, plainReq'.ip, now).allowed

NoBatchCall == req'.restCalls = <<>> /\ req'.gqlCalls = <<>> /\ req'.pc = "done"

NoPlainCall == plainReq'.calls = <<>> /\ plainReq'.pc = "done"

\* C14: when the local rate limiter denies a caller, the route answers 429
\* with an error message, the resetTime of the caller's window and
\* remaining = 0; it makes no remote call and leaves the cache as it is.
C14_DeniedIs429 ==
    [][/\ BatchDenied =>
            /\ response'.status = 429
            /\ response'.error = "Rate limit exceeded. Please try again later."
            /\ response'.resetTime = rateLimitMap[req'.ip].resetTime
            /\ response'.remaining = 0
            /\ NoBatchCall
            /\ validationCache' = validationCache
            /\ rateLimitMap' = rateLimitMap
       /\ PlainDenied =>
            /\ plainResponse'.status = 429
            /\ plainResponse'.error = "Rate limit exceeded. Please try again later."
            /\ plainResponse'.resetTime = plainRateLimitMap[plainReq'.ip].resetTime
            /\ plainResponse'.remaining = 0
            /\ NoPlainCall
            /\ validationCache' = validationCache
            /\ plainRateLimitMap' = plainRateLimitMap]_vars

\* Both routes have denied the caller whose window is used up; the batch
\* route was sent a list of the full MaxUsernames
C14_Witness ==
    /\ response.status = 429
    /\ response.remaining = 0
    /\ response.resetTime = HOUR
    /\ req.ip = ExhaustedIP
    /\ Len(req.usernames) = MaxUsernames
    /\ req.restCalls = <<>>
    /\ req.gqlCalls = <<>>
    /\ validationCache = <<>>
    /\ plainResponse.status = 429
    /\ plainResponse.remaining = 0
    /\ plainResponse.resetTime = HOUR
    /\ plainReq.ip = ExhaustedIP
    /\ plainReq.calls = <<>>

\* What the claim says of a route that receives a request in this step:
\* the request is answered 400 exactly when its list is bad, and then
\* without a remote call and without a write to the cache
RejectsBadLists(usernames, ceiling, status, noCall) ==
    /\ BadList(usernames, ceiling) <=> status = 400
    /\ status = 400 => noCall /\ validationCache' = validationCache

Repo(owner, name) == [owner |-> owner, name |-> name]

NoParent == [present |-> FALSE, owner |-> <<>>, name |-> <<>>]

\* A fork of the repository parent
ForkOf(parent) ==
    [fork |-> TRUE, parent |-> [present |-> TRUE, owner |-> parent.owner, name |-> parent.name]]

\* A fork whose parent the remote does not give
Orphan == [fork |-> TRUE, parent |-> NoParent]

\* The first n entries of a list (per_page = n, first: n)
FirstN(list, n) == SubSeq(list, 1, Min(n, Len(list)))

\* What a REST list call gives: ok with the entries, a non-success response, or a fault
ListAnswer(kind, entries) == [kind |-> kind, entries |-> IF kind = "ok" THEN entries ELSE <<>>]

\* route.ts:70-72, 91-93
SameRepo(owner, name, targetOwner, targetRepo) ==
    /\ toLowerCase(owner) = toLowerCase(targetOwner)
    /\ toLowerCase(name) = toLowerCase(targetRepo)

\* route.ts:62-77
RESTStarred(answer, targetOwner, targetRepo) ==
    /\ answer.kind = "ok"
    /\ \E i \in 1..Len(answer.entries) :
          SameRepo(answer.entries[i].owner, answer.entries[i].name, targetOwner, targetRepo)

\* route.ts:80-98
RESTForked(answer, targetOwner, targetRepo) ==
    /\ answer.kind = "ok"
    /\ \E i \in 1..Len(answer.entries) :
          LET r == answer.entries[i]
          IN  /\ r.fork
              /\ r.parent.present
              /\ SameRepo(r.parent.owner, r.parent.name, targetOwner, targetRepo)

\* route.ts:45-108; the catch of 101-107 is never entered, both calls have a
\* catch of their own
checkUserEngagement(starredAnswer, forksAnswer, targetOwner, targetRepo) ==
    [hasStarred |-> RESTStarred(starredAnswer, targetOwner, targetRepo),
     hasForked |-> RESTForked(forksAnswer, targetOwner, targetRepo),
     error |-> Undefined]

\* route.ts:172, 181, 187: `${owner}/${name}`
NameWithOwner(owner, name) == owner \o <<"/">> \o name

\* route.ts:174-191: one alias of an answered engagement query; starred and
\* forks are the nodes of starredRepositories and repositories
GraphQLEngagement(present, starred, forks, targetOwner, targetRepo) ==
    LET targetRepoName == toLowerCase(NameWithOwner(targetOwner, targetRepo))
    IN  IF ~present
        THEN [hasStarred |-> FALSE, hasForked |-> FALSE, error |-> "User not found"]
        ELSE [hasStarred |->
                 \E i \in 1..Len(starred) :
                    toLowerCase(NameWithOwner(starred[i].owner, starred[i].name)) = targetRepoName,
              hasForked |->
                 \E i \in 1..Len(forks) :
                    /\ forks[i].parent.present
                    /\ toLowerCase(NameWithOwner(forks[i].parent.owner, forks[i].parent.name))
                          = targetRepoName,
              error |-> Undefined]

\* The target and the repositories of the remote
Target == Repo(<<"A", "b">>, <<"c", "D">>)

TargetInOtherCase == Repo(<<"a", "B">>, <<"C", "d">>)

OtherRepos == {Repo(<<"A", "b">>, <<"x">>), Repo(<<"x">>, <<"c", "D">>)}

AnOtherRepo == Repo(<<"A", "b">>, <<"x">>)

\* Lists of at most one repository, and lists that hold the target behind
\* n other repositories, for n around the sizes of the pages fetched
ListsOf(target, other, extra) ==
    {<<>>} \cup {<<r>> : r \in {target, other} \cup extra}
        \cup {Rep(other, n) \o <<target>> :
                n \in {GraphQLFirst - 1, GraphQLFirst, RESTPerPage - 1, RESTPerPage}}

StarredLists == ListsOf(Target, AnOtherRepo, {TargetInOtherCase} \cup OtherRepos)

ForkLists ==
    ListsOf(ForkOf(Target), ForkOf(AnOtherRepo),
            {ForkOf(TargetInOtherCase), Orphan} \cup {ForkOf(r) : r \in OtherRepos})

ListKinds == {"ok", "notOk", "fault"}

EngagementCall(starred, forks, starredKind, forksKind) ==
    [fn |-> "engagement", starred |-> starred, forks |-> forks,
     starredKind |-> starredKind, forksKind |-> forksKind,
     rest |-> Null, graphql |-> Null]

InitUserEngagement ==
    /\ now = 0
    /\ nTicks = 0
    /\ rateLimitMap = <<>>
    /\ BatchIdle
    /\ LimiterIdle
    /\ PageIdle
    /\ EngagementIdle
    /\ PlainIdle
    /\ call \in {EngagementCall(starred, forks, starredKind, forksKind) :
                    starred \in StarredLists, forks \in ForkLists,
                    starredKind \in ListKinds, forksKind \in ListKinds}

\* route.ts:222-228: checkUserEngagement for the handle; its calls fetch
\* per_page=100 entries and are answered as starredKind and forksKind say
CheckREST ==
    /\ call.fn = "engagement"
    /\ call.rest = Null
    /\ call' = [call EXCEPT !.rest =
                  checkUserEngagement(
                      ListAnswer(call.starredKind, FirstN(call.starred, RESTPerPage)),
                      ListAnswer(call.forksKind, FirstN(call.forks, RESTPerPage)),
                      Target.owner, Target.name)]
    /\ UNCHANGED NotCall

\* route.ts:171-191: the alias of the handle in an answered query, which
\* asks for first: 50 of both lists
CheckGraphQL ==
    /\ call.fn = "engagement"
    /\ call.graphql = Null
    /\ call' = [call EXCEPT !.graphql =
                  GraphQLEngagement(TRUE, FirstN(call.starred, GraphQLFirst),
                                    FirstN(call.forks, GraphQLFirst), Target.owner, Target.name)]
    /\ UNCHANGED NotCall

NextUserEngagement == CheckREST \/ CheckGraphQL

SpecUserEngagement == InitUserEngagement /\ [][NextUserEngagement]_vars

----------------------------------------------------------------------------
(* Properties of the engagement of one handle, checked under SpecUserEngagement *)

CheckedREST == call.fn = "engagement" /\ call.rest # Null

\* C16: on the single-resource path a non-success response or a fault on
\* one of the two calls leaves that flag false and sets no error; when both
\* calls fault the result carries an error, with both flags false.
C16_ErrorWhenBothFault ==
    CheckedREST =>
        /\ call.starredKind # "ok" => ~call.rest.hasStarred
        /\ call.forksKind # "ok" => ~call.rest.hasForked
        /\ (call.starredKind = "fault") # (call.forksKind = "fault") =>
              call.rest.error = Undefined
        /\ call.starredKind = "fault" /\ call.forksKind = "fault" =>
              call.rest.error # Undefined

\* C17: on both paths hasStarred and hasForked say whether the list the
\* path fetched holds the target (a fork of the target), compared without
\* regard to case, and with the same lists at the remote both paths return
\* the same flags.
C17_PathsAgree ==
    /\ call.fn = "engagement"
    /\ call.rest # Null
    /\ call.graphql # Null
    /\ call.starredKind = "ok"
    /\ call.forksKind = "ok"
    => /\ call.rest.hasStarred = call.graphql.hasStarred
       /\ call.rest.hasForked = call.graphql.hasForked

----------------------------------------------------------------------------
(* Properties of the records of the page over time, checked under SpecPage *)

TerminalStatuses == {"invalid", "duplicate"}

\* A step that leaves the records in place: no upload and no processing
\* replaces processedUsers
RecordsKept ==
    /\ Len(processedUsers') = Len(processedUsers)
    /\ OriginalValuesOf(processedUsers') = OriginalValuesOf(processedUsers)
    /\ lastProcessed' \notin {"column", "manual"} \/ processedUsers' = processedUsers

\* C18: a record classified invalid or duplicate keeps that status through
\* validation, the merging of results and of engagement data, and retry,
\* and no request sent while it is so classified carries its handle.
C18_TerminalStatusKept ==
    [][\A i \in 1..Len(processedUsers) :
          processedUsers[i].status \in TerminalStatuses =>
              /\ RecordsKept => processedUsers'[i].status = processedUsers[i].status
              /\ \A request \in sent' \ sent :
                    Len(processedUsers[i].username) > 0 =>
                        processedUsers[i].username \notin SeqToSet(request.usernames)]_vars

\* The usernames of the records that can be retried
RetryableUsernames ==
    {processedUsers[i].username : i \in {k \in 1..Len(processedUsers) : Retryable(processedUsers[k])}}

\* C19: a record goes from error back to pending only by the retry action;
\* retry resets exactly the records in error with a rate-limit message (status
\* pending, error cleared), leaves every other record as it is, and submits
\* the usernames of the records it reset and no other.
C19_RetryResetsFailed ==
    [][/\ (\E i \in 1..Len(processedUsers) :
              /\ RecordsKept
              /\ processedUsers[i].status = "error"
              /\ processedUsers'[i].status = "pending")
          => retryFailedUsernames
       /\ retryFailedUsernames =>
              /\ Len(processedUsers') = Len(processedUsers)
              /\ \A i \in 1..Len(processedUsers) :
                    processedUsers'[i] =
                        IF Retryable(processedUsers[i])
                        THEN [processedUsers[i] EXCEPT !.status = "pending", !.error = Undefined]
                        ELSE processedUsers[i]
              /\ SeqToSet(run'.usernames) = RetryableUsernames
              /\ \A request \in sent' \ sent :
                    SeqToSet(request.usernames) = RetryableUsernames]_vars

\* Retry has reset the rate-limited record of octocat and started a run for
\* it alone, next to a record in error for another reason
C19_Witness ==
    /\ run.pc # "idle"
    /\ ~run.viaGitHub
    /\ run.usernames = <<octocat>>
    /\ Len(processedUsers) = 2
    /\ processedUsers[1].username = octocat
    /\ processedUsers[1].status = "pending"
    /\ processedUsers[2].status = "error"
    /\ processedUsers[2].error = "HTTP 500: Internal Server Error"
    /\ Request(IF tokenEntered THEN "/api/validate-github-batch" ELSE "/api/validate-github",
               <<octocat>>) \in sent

\* The run the step follows submits a chunk (again, after a wait, or the
\* next one) or starts an engagement wave
Submits ==
    /\ otherRun' = otherRun
    /\ run'.pc \in {"chunk", "repoBatch", "repoAll"}
    /\ <<run'.pc, run'.i, run'.waits>> # <<run.pc, run.i, run.waits>>

\* No run submits a chunk or starts a wave between a cancellation and the
\* start of the next validation
NoSubmissionAfterCancel == (cancelled /\ cancelled') => ~Submits

\* The cancellation leaves every record as it is, or gives it the validation
\* result that the cancelled run had obtained for its username
CancelKeepsMerged ==
    cancelValidation =>
        /\ Len(processedUsers') = Len(processedUsers)
        /\ \A i \in 1..Len(processedUsers) :
              \/ processedUsers'[i] = processedUsers[i]
              \/ /\ HasResult(run.results, processedUsers[i].username)
                 /\ processedUsers'[i].status =
                        ResultFor(run.results, processedUsers[i].username).status

\* C20: once the user has cancelled a running validation, no further chunk is
\* submitted and no further engagement wave is started (until a validation is
\* started again), and the cancellation discards no result: it changes a
\* record only to give it a result obtained before.
C20_CancelStopsValidation == [][NoSubmissionAfterCancel /\ CancelKeepsMerged]_vars

(***************************************************************************)
(* Properties of the progress panel, checked under SpecControl *)
(***************************************************************************)
\* The step ends the run that the user has cancelled: at the cancellation
\* itself, or when the wait after a 429 is over
CancelledRunEnds ==
    /\ run.pc # "idle"
    /\ run'.pc = "idle"
    /\ \/ cancelValidation /\ validationController = "run"
       \/ WaitOver /\ run.aborted

\* The step puts no record in error, but for a record to which it gives the
\* error that the validation route had answered for its username
NoNewError ==
    /\ Len(processedUsers') = Len(processedUsers)
    /\ \A i \in 1..Len(processedUsers) :
          (processedUsers'[i].status = "error" /\ processedUsers[i].status # "error")
              => /\ HasResult(run.results, processedUsers[i].username)
                 /\ ResultFor(run.results, processedUsers[i].username).status = "error"
                 /\ ResultFor(run.results, processedUsers[i].username).error
                        = processedUsers'[i].error

\* C21: a validation run that the user cancels ends with the toast
\* "Validation Failed" whose description is "Validation cancelled by user",
\* and marks no record as error, wherever the cancellation finds the run:
\* waiting after a 429, asleep at the pause gate, or with a request in flight.
C21_CancelReported ==
    [][CancelledRunEnds =>
          /\ lastToast' = ValidationFailed(CancelledByUser)
          /\ NoNewError]_vars

\* The part of C21 about the records: a cancelled run marks no record as error
C21_CancelMarksNoError == [][CancelledRunEnds => NoNewError]_vars

\* The part of C21 about the message, for a run cancelled while it waits
\* after a 429
C21_CancelReportedAfterWait ==
    [][(WaitOver /\ run.aborted) => lastToast' = ValidationFailed(CancelledByUser)]_vars

\* The step submits a chunk of the run: the first time, or again after a wait
ChunkSubmitted ==
    /\ run'.pc = "chunk"
    /\ run.pc # "chunk"

\* While the page is paused no chunk is submitted
PauseHoldsSubmissions == (isPaused /\ isPaused') => ~ChunkSubmitted

\* A run sleeps at the pause gate only while the page is paused
GateFollowsPause == run'.pc = "paused" => isPaused'

\* C22: once the user has paused, the request in flight is still answered
\* and merged, but no chunk is submitted until the user resumes or cancels;
\* once the user has resumed (the page is not paused) no run is held at the
\* pause gate.
C22_PauseHoldsLoop == [][PauseHoldsSubmissions /\ GateFollowsPause]_vars

\* The validation route answers 429 to the chunk of the run
Answered429 ==
    /\ run.pc = "chunk"
    /\ run'.pc = "wait"

\* page.tsx:654 with the number n of 429 answers for the exponent
BackoffTime(n) == Min(300000, 30000 * 2 ^ Min(n, 4))

\* C29: when a chunk is answered 429 the loop waits min(300 s, 30 s * 2^min(n, 4))
\* before it submits the same chunk again, n being the number of 429 answers
\* the chunk had received before this one (run.waits: the usernames of a run
\* make one chunk).
C29_BackoffDoubles ==
    [][Answered429 =>
          /\ run'.waitTime = BackoffTime(run.waits)
          /\ run'.i = run.i
          /\ run'.chunks = run.chunks]_vars

\* The part of C29 about the chunk: after the wait the same chunk is submitted
C29_SameChunkAgain ==
    [][(run.pc = "wait" /\ run'.pc = "chunk") =>
          /\ run'.i = run.i
          /\ ChunkRequest(run.chunks, run.i) \in sent']_vars

\* The validation route fails the chunk of the run, with neither a 429 nor
\* an abort
ChunkFails == \E w \in Worlds : ChunkAnswer("fail", w)

\* The pending records that the run was validating as part of its chunk
InChunk(user) ==
    /\ user.status = "pending"
    /\ Len(run.chunks) > run.i
    /\ user.username \in SeqToSet(run.chunks[run.i + 1])

\* C30: a chunk that fails for a reason other than a 429 or a cancellation
\* does not end the run with "Validation Failed", and when the run is
\* complete every record of the failed chunk has status error with a
\* message: none is left pending.
C30_FailedChunkMarked ==
    [][(ChunkFails /\ run'.pc = "idle") =>
          /\ lastToast' = ValidationComplete
          /\ Len(processedUsers') = Len(processedUsers)
          /\ \A i \in 1..Len(processedUsers) :
                InChunk(processedUsers[i]) =>
                    /\ processedUsers'[i].status = "error"
                    /\ processedUsers'[i].error # Undefined]_vars

\* The part of C30 about the run: the failure of a chunk does not end the
\* run as failed
C30_RunGoesOn ==
    [][ChunkFails => (run'.pc # "idle" \/ lastToast' = ValidationComplete)]_vars

\* C25: in every reachable state of the page a record that carries
\* repositoryEngagement has status valid.
C25_EngagementOnlyOnValid ==
    \A i \in 1..Len(processedUsers) :
        processedUsers[i].repositoryEngagement => processedUsers[i].status = "valid"

(***************************************************************************)
(* Further properties of the batch route, checked under Spec *)
(***************************************************************************)
\* The request received in the step is looked up in the cache
LookedUp ==
    /\ Received
    /\ response'.status \notin {400, 429}

\* The lookups of the step find what fresh(age) lets them find: a username
\* is a hit, answered with the stored result, if it has an entry of a fresh
\* age, and a miss otherwise
LookupsFollow(fresh(_)) ==
    \A i \in 1..Len(req'.usernames) :
        LET u == req'.usernames[i]
        IN  IF u \in DOMAIN validationCache /\ fresh(now - validationCache[u].timestamp)
            THEN /\ u \notin SeqToSet(req'.uncachedUsernames)
                 /\ FindByUsername(req'.cachedResults, u) = validationCache[u].result
            ELSE /\ u \in SeqToSet(req'.uncachedUsernames)
                 /\ FindByUsername(req'.cachedResults, u) = UndefinedObj

\* The writes of the step: an entry is left as it was, or it holds a result
\* of the request for its username with the current time; none is removed,
\* and every result the step has obtained is written
WritesOverwrite ==
    /\ DOMAIN validationCache \subseteq DOMAIN validationCache'
    /\ \A u \in DOMAIN validationCache' :
          \/ u \in DOMAIN validationCache /\ validationCache'[u] = validationCache[u]
          \/ /\ validationCache'[u].timestamp = now
             /\ validationCache'[u].result.username = u
             /\ \E k \in 1..Len(req'.uncachedResults) :
                   req'.uncachedResults[k] = validationCache'[u].result
    /\ \A k \in 1..Len(req'.uncachedResults) :
          (\A j \in 1..Len(req.uncachedResults) :
                req.uncachedResults[j] # req'.uncachedResults[k])
              => /\ req'.uncachedResults[k].username \in DOMAIN validationCache'
                 /\ validationCache'[req'.uncachedResults[k].username].timestamp = now

\* C23 as stated: a lookup returns the stored result exactly when the
\* username has an entry whose age does not exceed the freshness window of
\* five minutes; a write overwrites the entry of its username with the new
\* result and the current time and changes no other entry.
C23_Original ==
    [][/\ LookedUp => LookupsFollow(LAMBDA age : age <= CACHE_DURATION)
       /\ WritesOverwrite]_vars

\* C23: a lookup returns the stored result exactly when the username has an
\* entry whose age is less than the freshness window of five minutes (an
\* entry exactly five minutes old is absent); a write overwrites the entry of
\* its username with the new result and the current time and changes no
\* other entry.
C23_CacheReadWrite ==
    [][/\ LookedUp => LookupsFollow(LAMBDA age : age < CACHE_DURATION)
       /\ WritesOverwrite]_vars

\* A request made when an entry was one millisecond short of the window: one
\* of its usernames was answered from the cache, the other was validated and
\* written
C23_Witness ==
    /\ Done200
    /\ now = CACHE_DURATION - 1
    /\ Len(req.cachedResults) > 0
    /\ Len(req.uncachedResults) > 0
    /\ \E u \in DOMAIN validationCache : validationCache[u].timestamp = 0
    /\ \E u \in DOMAIN validationCache : validationCache[u].timestamp = now

\* The results of the misses of the finished request came from
\* validateUsernamesGraphQL: the batch queries were made and none failed
ServedByGraphQL ==
    /\ Len(req.gqlCalls) > 0
    /\ ~req.fallback
    /\ Len(req.restCalls) = 0

\* The results of the misses of the finished request came from
\* validateUsernamesREST
ServedByREST == Len(req.restCalls) > 0

\* C24: the method field of the response to a request with misses names the
\* validator whose results the response carries for them: "graphql" only if
\* they came from validateUsernamesGraphQL, "rest" whenever they came from
\* validateUsernamesREST, after a fallback and without a token too.
C24_MethodNamesStrategy ==
    (Done200 /\ Misses > 0) =>
        /\ response.method = "graphql" => ServedByGraphQL
        /\ ServedByREST => response.method = "rest"

\* The usernames of the batch queries of the request that succeeded
SucceededChunks ==
    UNION {SeqToSet(req.gqlCalls[k]) : k \in 1..(Len(req.gqlCalls) - 1)}

\* C26: when the batch query fails for one chunk of a request, the usernames
\* handed to validateUsernamesREST are those of that chunk: no username of a
\* chunk whose batch query had succeeded is validated a second time.
C26_FallbackOnlyFailedChunk ==
    (Done200 /\ req.fallback) =>
        /\ SeqToSet(req.restCalls) = SeqToSet(FailedChunk)
        /\ SeqToSet(req.restCalls) \cap SucceededChunks = {}

(***************************************************************************)
(* Further properties of validateUsernamesGraphQL, checked under SpecValidate *)
(***************************************************************************)
\* The call of validateUsernamesGraphQL whose query was not answered has ended
FailedGraphQLEnded ==
    /\ call.fn = "validateUsernamesGraphQL"
    /\ call.pc # "called"
    /\ call.failure # NoFailure

\* C27: when the query of a chunk gets a response that is not ok, or the
\* request faults, validateUsernamesGraphQL returns no result and throws to
\* its caller: no handle of the chunk is reported with any status.
C27_FailurePropagates ==
    FailedGraphQLEnded =>
        /\ call.pc = "thrown"
        /\ call.result = <<>>
        /\ call.error # ""

\* A chunk of two handles whose query was answered 502: the call has thrown
C27_Witness ==
    /\ FailedGraphQLEnded
    /\ Len(call.usernames) = 2
    /\ call.failure.kind = "notOk"
    /\ call.failure.status = 502
    /\ call.pc = "thrown"
    /\ call.error = "GraphQL request failed: 502"

(***************************************************************************)
(* The batch path of the engagement route: checkUsersEngagementGraphQL     *)
(* (check-repository-engagement/route.ts:116-203) for a list of handles.   *)
(* The queries of the chunks run side by side (pLimit(5), and a list of up *)
(* to 100 handles has at most four chunks), so they settle in any order.   *)
(* A handle is a number; the remote knows no user for a multiple of three, *)
(* and the users with an even number have starred the repository.          *)
(***************************************************************************)
\* The lists checkUsersEngagementGraphQL is called with: one handle, a full
\* chunk, a chunk and one handle, two chunks and one handle, and a list
\* with a repeated handle
EngagementLists ==
    {Range(n) : n \in {1, EngagementChunkSize, EngagementChunkSize + 1,
                       2 * EngagementChunkSize + 1}}
        \cup {<<3, 3, 2>>}

\* How the query of a chunk ends: answered, not ok (route.ts:165-168), or
\* with an exception (route.ts:193-196)
QueryOutcomes == {"ok", "notOk", "exception"}

UserKnown(username) == username % 3 # 0

UserStarred(username) == username % 2 = 0

\* route.ts:173-191: the result for one alias of an answered query
EngagementOfAlias(username) ==
    IF ~UserKnown(username)
    THEN [username |-> username, hasStarred |-> FALSE, hasForked |-> FALSE,
          error |-> "User not found"]
    ELSE [username |-> username, hasStarred |-> UserStarred(username), hasForked |-> FALSE,
          error |-> Undefined]

\* route.ts:222-228 with checkUserEngagement (route.ts:53-108) for a handle
\* whose calls are answered: 404 for an unknown user leaves both flags false
\* and sets no error
EngagementOfUser(username) ==
    [username |-> username, hasStarred |-> UserKnown(username) /\ UserStarred(username),
     hasForked |-> FALSE, error |-> Undefined]

\* route.ts:206-249: checkUsersEngagementREST with a token; every promise of
\* a wave is fulfilled, and the values are pushed in the order of the wave
checkUsersEngagementREST(usernames) ==
    Concat([k \in 1..Len(Chunks(usernames, EngagementRESTBatch)) |->
               LET batch == Chunks(usernames, EngagementRESTBatch)[k]
               IN  [i \in 1..Len(batch) |-> EngagementOfUser(batch[i])]])

\* route.ts:133-197: what the promise of one chunk is fulfilled with
EngagementOfBatch(batch, outcome) ==
    IF outcome = "ok"
    THEN [i \in 1..Len(batch) |-> EngagementOfAlias(batch[i])]
    ELSE checkUsersEngagementREST(batch)

\* The results of the chunks pushed in the order in which their queries settled
SettledAsCompleted(settled, completed) ==
    Concat([n \in 1..Len(completed) |-> settled[completed[n]]])

\* route.ts:199-200: Promise.all gives the values in the order of the
\* promises, whichever settled first
SettledInOrder(settled, completed) == Concat(settled)

BatchCall(usernames) ==
    [fn |-> "checkUsersEngagementGraphQL", pc |-> "called", usernames |-> usernames,
     batches |-> Chunks(usernames, EngagementChunkSize),
     outcomes |-> [k \in 1..Len(Chunks(usernames, EngagementChunkSize)) |-> "pending"],
     settled |-> [k \in 1..Len(Chunks(usernames, EngagementChunkSize)) |-> <<>>],
     completed |-> <<>>, restCalls |-> <<>>, results |-> <<>>]

InitEngagementBatch ==
    /\ now = 0
    /\ nTicks = 0
    /\ rateLimitMap = <<>>
    /\ BatchIdle
    /\ LimiterIdle
    /\ PageIdle
    /\ EngagementIdle
    /\ PlainIdle
    /\ call \in {BatchCall(usernames) : usernames \in EngagementLists}

\* route.ts:133-197: the query of chunk k settles
SettleBatch(k, outcome) ==
    /\ call.fn = "checkUsersEngagementGraphQL"
    /\ call.pc = "called"
    /\ k \in 1..Len(call.batches)
    /\ call.outcomes[k] = "pending"
    /\ call' = [call EXCEPT
                  !.outcomes[k] = outcome,
                  !.settled[k] = EngagementOfBatch(call.batches[k], outcome),
                  !.completed = Append(@, k),
                  !.restCalls = IF outcome = "ok" THEN @ ELSE Append(@, call.batches[k])]
    /\ UNCHANGED NotCall

\* route.ts:199-202: every chunk has settled
ReturnEngagementBatch ==
    /\ call.fn = "checkUsersEngagementGraphQL"
    /\ call.pc = "called"
    /\ \A k \in 1..Len(call.batches) : call.outcomes[k] # "pending"
    /\ call' = [call EXCEPT !.pc = "returned",
                            !.results = SettledInOrder(call.settled, call.completed)]
    /\ UNCHANGED NotCall

NextEngagementBatch ==
    \/ \E k \in 1..Len(call.batches), outcome \in QueryOutcomes : SettleBatch(k, outcome)
    \/ ReturnEngagementBatch

SpecEngagementBatch == InitEngagementBatch /\ [][NextEngagementBatch]_vars

(***************************************************************************)
(* Properties of the batch path of the engagement route, checked under     *)
(* SpecEngagementBatch                                                     *)
(***************************************************************************)
ReturnedEngagementBatch == call.fn = "checkUsersEngagementGraphQL" /\ call.pc = "returned"

\* The number of the chunk that holds position i of the list
ChunkOf(i) == ((i - 1) \div EngagementChunkSize) + 1

\* C28: the batch path of the engagement route splits the handles into
\* chunks of at most 30; the handles of a chunk whose query fails (a response
\* that is not ok, or an exception) are checked again by
\* checkUsersEngagementREST, chunk by chunk, the other chunks keep the
\* results of their query, and the list returned has one result per
\* submitted handle, in the order of submission.
C28_ChunkFallback ==
    ReturnedEngagementBatch =>
        /\ \A k \in 1..Len(call.batches) : Len(call.batches[k]) \in 1..EngagementChunkSize
        /\ Concat(call.batches) = call.usernames
        /\ SeqToSet(call.restCalls) =
               {call.batches[k] : k \in {j \in 1..Len(call.batches) : call.outcomes[j] # "ok"}}
        /\ Len(call.restCalls) =
               Cardinality({j \in 1..Len(call.batches) : call.outcomes[j] # "ok"})
        /\ Len(call.results) = Len(call.usernames)
        /\ \A i \in 1..Len(call.usernames) :
              call.results[i] =
                  IF call.outcomes[ChunkOf(i)] = "ok"
                  THEN EngagementOfAlias(call.usernames[i])
                  ELSE EngagementOfUser(call.usernames[i])

\* Three chunks; the query of the second failed and settled first, the other
\* two were answered: the unknown user 33 has no error, the unknown user 3
\* of an answered chunk is reported as not found
C28_Witness ==
    /\ ReturnedEngagementBatch
    /\ Len(call.batches) = 3
    /\ call.outcomes = <<"ok", "notOk", "ok">>
    /\ call.completed[1] = 2
    /\ call.restCalls = <<call.batches[2]>>
    /\ call.results[33].error = Undefined
    /\ call.results[3].error = "User not found"
    /\ call.results[61].username = 61

(***************************************************************************)
(* The cache entries behind a response, checked under Spec *)
(***************************************************************************)
\* The results the response gives for the misses of the request
ResolvedMisses ==
    {response.results[i] : i \in {j \in 1..Len(req.usernames) :
                                     req.usernames[j] \in SeqToSet(req.uncachedUsernames)}}

\* C31: when the batch route returns results, every miss resolved as valid
\* or deleted has a cache entry holding exactly the result returned for it,
\* written (during this request) before the response is produced.
C31_ResolvedMissCached ==
    Done200 =>
        \A result \in ResolvedMisses :
            result.status \in {"valid", "deleted"} =>
                /\ result.username \in DOMAIN validationCache
                /\ validationCache[result.username].result = result
                /\ validationCache[result.username].timestamp <= now

\* Handles submitted once: each resolved miss is in the cache with the
\* result returned for it, whatever its status
C31_SubmittedOnceCached ==
    Done200 =>
        \A result \in ResolvedMisses :
            Cardinality({j \in 1..Len(req.usernames) :
                            req.usernames[j] = result.username}) = 1 =>
                /\ result.username \in DOMAIN validationCache
                /\ validationCache[result.username].result = result

(***************************************************************************)
(* Fan-out.  The three functions that issue remote calls side by side,     *)
(* call by call: validateUsernamesREST (validate-github-batch/route.ts:    *)
(* 155-234), checkUsersEngagementREST and checkUsersEngagementGraphQL      *)
(* (check-repository-engagement/route.ts:206-249, 116-203).  A wave is the *)
(* list of calls started together and awaited together; inFlight counts    *)
(* those of its calls that have not settled yet.                            *)
(***************************************************************************)
\* route.ts:213: batchSize = token ? 20 : 5
BatchSizeOf(token) == IF token THEN EngagementRESTBatch ELSE EngagementRESTBatchAnon

\* route.ts:216-238 (validate-github-batch/route.ts:173-224): the loop over
\* the waves of a list, at the start of its first wave
StartWaves(usernames, size) ==
    [pc |-> "wave", batches |-> Chunks(usernames, size), wave |-> 1,
     inFlight |-> Len(Chunks(usernames, size)[1])]

\* One call of the wave settles; when it was the last one the await of the
\* wave returns, and the loop sleeps before the next wave or ends
CallSettles(r) ==
    IF r.inFlight > 1 THEN [r EXCEPT !.inFlight = @ - 1]
    ELSE IF r.wave < Len(r.batches) THEN [r EXCEPT !.inFlight = 0, !.pc = "delay"]
    ELSE [r EXCEPT !.inFlight = 0, !.pc = "done"]

\* route.ts:244-246 (validate-github-batch/route.ts:228-230): the delay is
\* over, the next wave starts
NextWave(r) ==
    [r EXCEPT !.pc = "wave", !.wave = @ + 1, !.inFlight = Len(r.batches[r.wave + 1])]

\* A chunk of checkUsersEngagementGraphQL: its task waits in the queue of
\* pLimit, its query is in flight, checkUsersEngagementREST runs for it
\* (rest is the state of that loop), or its promise is settled
NoWaves == [pc |-> "none", batches |-> <<>>, wave |-> 0, inFlight |-> 0]

QueuedTask == [pc |-> "queued", rest |-> NoWaves]

RESTCall(fn, usernames, token, size) ==
    [fn |-> fn, pc |-> "called", usernames |-> usernames, token |-> token,
     rest |-> StartWaves(usernames, size), batches |-> <<>>, tasks |-> <<>>]

GraphQLEngagementCall(usernames) ==
    [fn |-> "checkUsersEngagementGraphQL", pc |-> "called", usernames |-> usernames,
     token |-> TRUE, rest |-> NoWaves, batches |-> Chunks(usernames, EngagementChunkSize),
     tasks |-> [k \in 1..Len(Chunks(usernames, EngagementChunkSize)) |-> QueuedTask]]

\* Lists one longer than a wave, and of one, two and three chunks
InitFanOut ==
    /\ now = 0
    /\ nTicks = 0
    /\ rateLimitMap = <<>>
    /\ BatchIdle
    /\ LimiterIdle
    /\ PageIdle
    /\ EngagementIdle
    /\ PlainIdle
    /\ call \in
          {RESTCall("validateUsernamesREST", Range(n), token, RESTConcurrency) :
              n \in {1, RESTConcurrency + 1}, token \in BOOLEAN}
          \cup {RESTCall("checkUsersEngagementREST", Range(n), token, BatchSizeOf(token)) :
                  n \in {EngagementRESTBatchAnon + 1, EngagementRESTBatch + 1},
                  token \in BOOLEAN}
          \cup {GraphQLEngagementCall(Range(n)) :
                  n \in {1, EngagementChunkSize + 1, 2 * EngagementChunkSize + 1}}

\* validate-github-batch/route.ts:178-224: a call of the wave settles
ValidationCallSettles ==
    /\ call.fn = "validateUsernamesREST"
    /\ call.pc = "called"
    /\ call.rest.pc = "wave"
    /\ call' = [call EXCEPT !.rest = CallSettles(@),
                            !.pc = IF CallSettles(call.rest).pc = "done"
                                   THEN "returned" ELSE @]
    /\ UNCHANGED NotCall

\* validate-github-batch/route.ts:228-230
ValidationDelayOver ==
    /\ call.fn = "validateUsernamesREST"
    /\ call.pc = "called"
    /\ call.rest.pc = "delay"
    /\ call' = [call EXCEPT !.rest = NextWave(@)]
    /\ UNCHANGED NotCall

\* check-repository-engagement/route.ts:219-238 for a call made by POST
\* (route.ts:286-299): the check of a handle settles
EngagementCheckSettles ==
    /\ call.fn = "checkUsersEngagementREST"
    /\ call.pc = "called"
    /\ call.rest.pc = "wave"
    /\ call' = [call EXCEPT !.rest = CallSettles(@),
                            !.pc = IF CallSettles(call.rest).pc = "done"
                                   THEN "returned" ELSE @]
    /\ UNCHANGED NotCall

\* check-repository-engagement/route.ts:244-246
EngagementDelayOver ==
    /\ call.fn = "checkUsersEngagementREST"
    /\ call.pc = "called"
    /\ call.rest.pc = "delay"
    /\ call' = [call EXCEPT !.rest = NextWave(@)]
    /\ UNCHANGED NotCall

\* The tasks pLimit is running: started and not settled
ActiveTasks(tasks) == {k \in 1..Len(tasks) : tasks[k].pc \in {"query", "rest"}}

\* route.ts:124, 131-132: pLimit starts the queued tasks in the order in
\* which they were added while fewer than five are running
StartTask(k) ==
    /\ call.fn = "checkUsersEngagementGraphQL"
    /\ call.pc = "called"
    /\ call.tasks[k].pc = "queued"
    /\ \A j \in 1..(k - 1) : call.tasks[j].pc # "queued"
    /\ Cardinality(ActiveTasks(call.tasks)) < EngagementLimit
    /\ call' = [call EXCEPT !.tasks[k].pc = "query"]
    /\ UNCHANGED NotCall

\* route.ts:157-195: the query of chunk k settles; answered, the task ends,
\* otherwise it goes on with checkUsersEngagementREST for its chunk
\* (route.ts:168, 194)
QuerySettles(k, outcome) ==
    /\ call.fn = "checkUsersEngagementGraphQL"
    /\ call.pc = "called"
    /\ call.tasks[k].pc = "query"
    /\ call' = IF outcome = "ok"
               THEN [call EXCEPT !.tasks[k].pc = "done"]
               ELSE [call EXCEPT !.tasks[k].pc = "rest",
                                 !.tasks[k].rest =
                                     StartWaves(call.batches[k], BatchSizeOf(call.token))]
    /\ UNCHANGED NotCall

\* route.ts:219-238 inside the task of chunk k
FallbackCheckSettles(k) ==
    /\ call.fn = "checkUsersEngagementGraphQL"
    /\ call.pc = "called"
    /\ call.tasks[k].pc = "rest"
    /\ call.tasks[k].rest.pc = "wave"
    /\ call' = [call EXCEPT !.tasks[k].rest = CallSettles(@),
                            !.tasks[k].pc = IF CallSettles(call.tasks[k].rest).pc = "done"
                                            THEN "done" ELSE @]
    /\ UNCHANGED NotCall

\* route.ts:244-246 inside the task of chunk k
FallbackDelayOver(k) ==
    /\ call.fn = "checkUsersEngagementGraphQL"
    /\ call.pc = "called"
    /\ call.tasks[k].pc = "rest"
    /\ call.tasks[k].rest.pc = "delay"
    /\ call' = [call EXCEPT !.tasks[k].rest = NextWave(@)]
    /\ UNCHANGED NotCall

\* route.ts:199-202
ReturnFanOut ==
    /\ call.fn = "checkUsersEngagementGraphQL"
    /\ call.pc = "called"
    /\ \A k \in 1..Len(call.tasks) : call.tasks[k].pc = "done"
    /\ call' = [call EXCEPT !.pc = "returned"]
    /\ UNCHANGED NotCall

NextFanOut ==
    \/ ValidationCallSettles
    \/ ValidationDelayOver
    \/ EngagementCheckSettles
    \/ EngagementDelayOver
    \/ \E k \in 1..Len(call.tasks) : StartTask(k)
    \/ \E k \in 1..Len(call.tasks), outcome \in QueryOutcomes : QuerySettles(k, outcome)
    \/ \E k \in 1..Len(call.tasks) : FallbackCheckSettles(k)
    \/ \E k \in 1..Len(call.tasks) : FallbackDelayOver(k)
    \/ ReturnFanOut

SpecFanOut == InitFanOut /\ [][NextFanOut]_vars

(***************************************************************************)
(* Properties of the fan-out, checked under SpecFanOut *)
(***************************************************************************)
RECURSIVE SumOver(_, _)
SumOver(f, S) ==
    IF S = {} THEN 0
    ELSE LET k == CHOOSE k \in S : TRUE IN f[k] + SumOver(f, S \ {k})

\* The chunk queries in flight
QueriesInFlight ==
    Cardinality({k \in 1..Len(call.tasks) : call.tasks[k].pc = "query"})

\* The handles checkUsersEngagementREST is checking, in all the tasks
HandlesBeingChecked ==
    SumOver([k \in 1..Len(call.tasks) |-> call.tasks[k].rest.inFlight], 1..Len(call.tasks))

\* The validation single-resource path: at most 20 calls in flight, and a
\* wave starts only when no call of the wave before is in flight
ValidationWavesBounded ==
    /\ [](call.fn = "validateUsernamesREST" => call.rest.inFlight <= RESTConcurrency)
    /\ [][(call.fn = "validateUsernamesREST" /\ call'.rest.wave # call.rest.wave)
              => call.rest.inFlight = 0]_vars

\* The engagement batch path: at most five chunk queries in flight
QueriesBounded ==
    call.fn = "checkUsersEngagementGraphQL" => QueriesInFlight <= EngagementLimit

\* The engagement single-resource path called by POST: at most 20 handles
\* with credentials, 5 without
ChecksBounded ==
    call.fn = "checkUsersEngagementREST" => call.rest.inFlight <= BatchSizeOf(call.token)

\* The engagement single-resource path as the fallback of failed chunks
FallbackChecksBounded ==
    call.fn = "checkUsersEngagementGraphQL" => HandlesBeingChecked <= BatchSizeOf(call.token)

\* C32: fan-out is bounded at every moment of a request: the validation
\* single-resource path has at most 20 remote calls in flight and starts a
\* wave only after every call of the previous wave completed; the engagement
\* batch path has at most 5 chunk queries in flight; the engagement
\* single-resource path has at most 20 handles (with credentials) or 5
\* (without) being checked at once, including when it runs as the fallback
\* of failed batch chunks.
C32_FanOutBounded ==
    /\ ValidationWavesBounded
    /\ [](QueriesBounded /\ ChecksBounded /\ FallbackChecksBounded)

\* The bounds that hold: every part of C32 but the fallback
C32_BoundedButFallback ==
    /\ ValidationWavesBounded
    /\ [](QueriesBounded /\ ChecksBounded)

\* Within one failed chunk the fallback keeps to its wave of 20
C32_FallbackWaveBounded ==
    call.fn = "checkUsersEngagementGraphQL" =>
        \A k \in 1..Len(call.tasks) : call.tasks[k].rest.inFlight <= BatchSizeOf(call.token)

(***************************************************************************)
(* The windows of the rate limiters, checked under SpecLimiter *)
(***************************************************************************)
\* The step is a check of the route's limiter for ip
Checks(route, ip) ==
    /\ nChecks' = nChecks + 1
    /\ lastCheck'.route = route
    /\ lastCheck'.ip = ip

\* C33: the first rate-limit check for a caller, and the first check made
\* after the caller's resetTime has passed, is allowed and starts a new
\* window with count = 1 and resetTime = now + 1 hour; a check made before
\* resetTime never changes the window's resetTime, and a check for one caller
\* never changes another caller's window.  For both limiters.
C33_WindowStartsLazily ==
    [][\A route \in Routes, ip \in LimiterIPs :
          Checks(route, ip) =>
             LET old == LimiterMap(route)
                 new == IF route = "batch" THEN rateLimitMap' ELSE plainRateLimitMap'
             IN  /\ (ip \notin DOMAIN old \/ now > old[ip].resetTime) =>
                       /\ lastCheck'.allowed
                       /\ new[ip] = [count |-> 1, resetTime |-> now + HOUR]
                       /\ lastCheck'.resetTime = now + HOUR
                 /\ (ip \in DOMAIN old /\ now < old[ip].resetTime) =>
                       new[ip].resetTime = old[ip].resetTime
                 /\ DOMAIN new = DOMAIN old \cup {ip}
                 /\ \A other \in DOMAIN old \ {ip} : new[other] = old[other]]_vars

\* A caller whose window ran out a millisecond ago has just been given a new
\* one, while the window another caller opened at time 0 is as it was
C33_Witness ==
    /\ lastCheck.route = "batch"
    /\ lastCheck.ip = "10.0.0.1"
    /\ lastCheck.allowed
    /\ now = HOUR + 1
    /\ rateLimitMap["10.0.0.1"] = [count |-> 1, resetTime |-> 2 * HOUR + 1]
    /\ "10.0.0.2" \in DOMAIN rateLimitMap
    /\ rateLimitMap["10.0.0.2"].resetTime = HOUR

(***************************************************************************)
(* The life cycle of a record, checked under SpecControl *)
(***************************************************************************)
\* The usernames of the validation request the run has in flight
InFlightUsernames(r) ==
    IF r.pc = "batch" THEN SeqToSet(r.usernames)
    ELSE IF r.pc = "chunk" THEN SeqToSet(r.chunks[r.i + 1])
    ELSE {}

\* The statuses a record takes from an answer of the validation routes
RemoteDerived == {"valid", "deleted", "error"}

\* C34: every record submitted for validation has status processing from the
\* moment its request is issued until its result is merged: records follow
\* pending -> processing -> {valid, deleted, error}, and no record goes from
\* pending directly to a remote-derived status.
C34_ProcessingUntilMerged ==
    /\ [](\A k \in 1..Len(processedUsers) :
             (/\ processedUsers[k].username \in InFlightUsernames(run)
              /\ processedUsers[k].status \notin RemoteDerived)
                => processedUsers[k].status = "processing")
    /\ [][\A k \in 1..Min(Len(processedUsers), Len(processedUsers')) :
             processedUsers[k].status = "pending"
                => processedUsers'[k].status \notin RemoteDerived]_vars

\* No record ever has the status processing
C34_NeverProcessing ==
    \A k \in 1..Len(processedUsers) : processedUsers[k].status # "processing"

(***************************************************************************)
(* Re-submission of a handle after a rate-limit error, checked under Spec *)
(***************************************************************************)
\* The result recorded for the username is an error a retry pass re-submits
\* (page.tsx:371)
RecordedRateLimitError(username) ==
    /\ username \in DOMAIN validationCache
    /\ validationCache[username].result.status = "error"
    /\ validationCache[username].result.error \in RateLimitExceededErrors

\* C35: a retry pass re-queries the remote API for every retried handle: a
\* handle whose recorded result is a rate-limit error is not answered from
\* the cache when it is re-submitted, even within the freshness window, so
\* a retry can change its status.
C35_RetryRequeries ==
    [][LookedUp =>
          \A i \in 1..Len(req'.usernames) :
              RecordedRateLimitError(req'.usernames[i]) =>
                  /\ req'.usernames[i] \in SeqToSet(req'.uncachedUsernames)
                  /\ FindByUsername(req'.cachedResults, req'.usernames[i]) = UndefinedObj]_vars

(***************************************************************************)
(* Termination of a run.  The scheduling is fair to the run: a request in  *)
(* flight is eventually answered and a wait eventually over.  A chunk is   *)
(* answered 429 at most MaxWaits times.                                    *)
(***************************************************************************)
\* The server answers the request in flight, or the wait after a 429 is over
RunProgress ==
    \/ \E ok \in BOOLEAN, w \in Worlds : BatchAnswer(ok, w)
    \/ \E answer \in RepoAnswers : RepoBatchAnswer(answer)
    \/ \E answer \in ChunkAnswers, w \in Worlds : ChunkAnswer(answer, w)
    \/ WaitOver
    \/ \E answer \in RepoAnswers : RepoAllAnswer(answer)

SpecControlFair == InitRuns /\ [][NextControl]_vars /\ WF_vars(RunProgress)

\* page.tsx:807-810, 839-841: the page has left the validating state
LeftValidating == ~isValidating /\ validationController = "none"

\* C36: every validation run terminates: under fair scheduling, if the
\* server answers 429 only finitely often and any pause is eventually
\* followed by resume or cancel (the page is not paused for ever), the
\* control loop eventually leaves the validating state, whether it ends by
\* completion, failure or cancellation.
C36_RunTerminates ==
    ([]<>(~isPaused)) => (isValidating ~> LeftValidating)

\* A run that is not held at the pause gate ends or comes to the gate
C36_RunEndsOrIsHeld ==
    (isValidating /\ run.pc # "paused") ~> (LeftValidating \/ run.pc = "paused")

(***************************************************************************)
(* The quota reported to the caller, checked under SpecRoutes *)
(***************************************************************************)
\* The remaining quota the batch route reports lies within its ceiling
BatchRemainingInRange ==
    /\ (req.pc = "done" /\ response.status = 200) =>
          response.rateLimit.remaining \in
              0..(IF req.githubToken THEN TokenLimit ELSE AnonLimit)
    /\ (req.pc = "done" /\ response.status = 429) =>
          response.remaining \in 0..(IF req.githubToken THEN TokenLimit ELSE AnonLimit)

\* The remaining quota the plain route reports lies within its ceiling
PlainRemainingInRange ==
    /\ (plainReq.pc = "done" /\ plainResponse.status = 200) =>
          plainResponse.rateLimit.remaining \in 0..PlainLimit
    /\ (plainReq.pc = "done" /\ plainResponse.status = 429) =>
          plainResponse.remaining \in 0..PlainLimit

\* C37: every remaining quota value reported to a caller, in success
\* responses and in 429 rejections of both validation endpoints, lies
\* between 0 and the applicable ceiling.
C37_RemainingInRange == BatchRemainingInRange /\ PlainRemainingInRange

\* The batch route alone keeps the reported value in range, and so do the
\* 429 rejections of the plain route
C37_InRangeButPlainSuccess ==
    /\ BatchRemainingInRange
    /\ (plainReq.pc = "done" /\ plainResponse.status = 429) =>
          plainResponse.remaining \in 0..PlainLimit

(***************************************************************************)
(* The quota cost of a rejected request, checked under SpecRoutes *)
(***************************************************************************)
\* The batch route rejects the request it receives in this step for its
\* list, and leaves the windows of its limiter as they are
BatchRejectionIsFree ==
    (BatchReceives /\ response'.status = 400) => rateLimitMap' = rateLimitMap

\* The same for the plain route
PlainRejectionIsFree ==
    (PlainReceives /\ plainResponse'.status = 400) => plainRateLimitMap' = plainRateLimitMap

\* C38: a validation request that is rejected for malformed input (missing,
\* empty or over-ceiling handle list) leaves the caller's quota window
\* unchanged, on both the batch and the plain validation endpoint.
C38_RejectionCostsNoQuota == [][BatchRejectionIsFree /\ PlainRejectionIsFree]_vars

\* On the batch route a rejected request costs nothing
C38_BatchRejectionCostsNoQuota == [][BatchRejectionIsFree]_vars

\* On the plain route every request answered 400 has been counted: it has
\* opened a window for the caller or raised the count of the caller's window
C38_PlainRejectionCounted ==
    [][(PlainReceives /\ plainResponse'.status = 400) =>
          LET ip == plainReq'.ip
          IN  IF ip \in DOMAIN plainRateLimitMap /\ now <= plainRateLimitMap[ip].resetTime
              THEN plainRateLimitMap'[ip].count = plainRateLimitMap[ip].count + 1
              ELSE plainRateLimitMap'[ip].count = 1]_vars


(***************************************************************************)
(* The auto-validation timer of processUsernames, checked under SpecPage   *)
(***************************************************************************)
\* The usernames validateWithGitHub submits when it sees the list users
\* (page.tsx:924-940)
SubmittedFrom(users) == UsernamesOf(UsersToValidate(users))

\* C39: when the processing of a file column finds between 1 and 100
\* first-seen valid-format handles, a timer is set, and the validation the
\* timer starts submits exactly the pending records of the list this
\* processing produced.
C39_AutoValidatesProcessedList ==
    [][processUsernames =>
          LET processed == ProcessColumn(parsedData[selectedColumn])
          IN  processed.validUsernameCount \in 1..AutoValidateLimit =>
                  /\ Len(timers') = Len(timers) + 1
                  /\ SubmittedFrom(timers'[Len(timers')].processedUsers)
                         = SubmittedFrom(processedUsers')]_vars

=============================================================================
